---- MODULE Spec2Model ----
(***************************************************************************)
(* Verification model of circuit-lab: the disjoint-set net merger          *)
(* (unionFind.js) and the circuit simulation pipeline                      *)
(* (circuitSimulator.js).                                                  *)
(*                                                                         *)
(* Units: voltages are integers in millivolts, currents in microamperes.   *)
(* A bulb of 500 Ohm carries 2 uA per mV of drop, so every comparison the  *)
(* code makes on currents is exact on integers.                           *)
(***************************************************************************)
EXTENDS Integers, Sequences, FiniteSets, TLC

(***************************************************************************)
(* Bounds of the model.                                                    *)
(***************************************************************************)
NumIds == 4
MaxNodes == 4
MaxWires == 1

Ids == 1..NumIds

(***************************************************************************)
(* UnionFind: parent and rank are JS Maps; keys is the insertion order of  *)
(* the parent Map (the order parent.keys() iterates in).                   *)
(***************************************************************************)
EmptyUF ==
  [keys |-> <<>>, parent |-> [k \in {} |-> k], rank |-> [k \in {} |-> 0]]

\* makeSet without the has() test: a registered id is reset to a root of rank 0
MakeSetAlways(u, x) ==
  [keys   |-> IF x \in DOMAIN u.parent THEN u.keys ELSE Append(u.keys, x),
   parent |-> [k \in DOMAIN u.parent \cup {x} |->
                 IF k = x THEN x ELSE u.parent[k]],
   rank   |-> [k \in DOMAIN u.rank \cup {x} |->
                 IF k = x THEN 0 ELSE u.rank[k]]]

MakeSet(u, x) ==
  IF x \in DOMAIN u.parent
    THEN u
    ELSE [keys   |-> Append(u.keys, x),
          parent |-> [k \in DOMAIN u.parent \cup {x} |->
                        IF k = x THEN x ELSE u.parent[k]],
          rank   |-> [k \in DOMAIN u.rank \cup {x} |->
                        IF k = x THEN 0 ELSE u.rank[k]]]

\* find without the recursive call: returns the direct parent.
FindOneStep(u, x) ==
  LET u1 == MakeSet(u, x) IN [uf |-> u1, root |-> u1.parent[x]]

\* find that follows the chain to the root and rewrites no parent
RECURSIVE FindNoCompression(_, _)
FindNoCompression(u, x) ==
  LET u1 == MakeSet(u, x) IN
    IF u1.parent[x] # x
      THEN FindNoCompression(u1, u1.parent[x])
      ELSE [uf |-> u1, root |-> u1.parent[x]]

\* find(x): the result is the pair of the updated tables and the returned root.
RECURSIVE Find(_, _)
Find(u, x) ==
  LET u1 == MakeSet(u, x) IN
    IF u1.parent[x] # x
      THEN LET r == Find(u1, u1.parent[x]) IN
             [uf   |-> [r.uf EXCEPT !.parent[x] = r.root],
              root |-> r.root]
      ELSE [uf |-> u1, root |-> u1.parent[x]]

\* union that links the arguments themselves instead of their roots.
UnionNoRoots(u, x, y) ==
  LET u2 == MakeSet(MakeSet(u, x), y) IN
    IF x = y THEN u2 ELSE [u2 EXCEPT !.parent[y] = x]

\* union that, on a tie, attaches the second root without raising the rank
UnionNoRankBump(u, x, y) ==
  LET fx    == Find(u, x)
      fy    == Find(fx.uf, y)
      rootX == fx.root
      rootY == fy.root
      u2    == fy.uf
      rankX == u2.rank[rootX]
      rankY == u2.rank[rootY]
  IN  IF rootX = rootY THEN u2
      ELSE IF rankX < rankY
        THEN [u2 EXCEPT !.parent[rootX] = rootY]
      ELSE [u2 EXCEPT !.parent[rootY] = rootX]

\* union that attaches the second root under the first whatever the ranks
UnionFirstSurvives(u, x, y) ==
  LET fx    == Find(u, x)
      fy    == Find(fx.uf, y)
      rootX == fx.root
      rootY == fy.root
      u2    == fy.uf
      rankX == u2.rank[rootX]
      rankY == u2.rank[rootY]
  IN  IF rootX = rootY THEN u2
      ELSE IF rankX = rankY
        THEN [u2 EXCEPT !.parent[rootY] = rootX, !.rank[rootX] = rankX + 1]
      ELSE [u2 EXCEPT !.parent[rootY] = rootX]

\* union that, when the first root has the greater rank, lowers that rank
\* to the rank of the root it absorbs
UnionResetsRank(u, x, y) ==
  LET fx    == Find(u, x)
      fy    == Find(fx.uf, y)
      rootX == fx.root
      rootY == fy.root
      u2    == fy.uf
      rankX == u2.rank[rootX]
      rankY == u2.rank[rootY]
  IN  IF rootX = rootY THEN u2
      ELSE IF rankX < rankY THEN [u2 EXCEPT !.parent[rootX] = rootY]
      ELSE IF rankX > rankY
        THEN [u2 EXCEPT !.parent[rootY] = rootX, !.rank[rootX] = rankY]
      ELSE [u2 EXCEPT !.parent[rootY] = rootX, !.rank[rootX] = rankX + 1]

\* union without the early return for equal roots
UnionNoSameCheck(u, x, y) ==
  LET fx    == Find(u, x)
      fy    == Find(fx.uf, y)
      rootX == fx.root
      rootY == fy.root
      u2    == fy.uf
      rankX == u2.rank[rootX]
      rankY == u2.rank[rootY]
  IN  IF rankX < rankY THEN [u2 EXCEPT !.parent[rootX] = rootY]
      ELSE IF rankX > rankY THEN [u2 EXCEPT !.parent[rootY] = rootX]
      ELSE [u2 EXCEPT !.parent[rootY] = rootX, !.rank[rootX] = rankX + 1]

Union(u, x, y) ==
  LET fx    == Find(u, x)
      fy    == Find(fx.uf, y)
      rootX == fx.root
      rootY == fy.root
      u2    == fy.uf
      rankX == u2.rank[rootX]
      rankY == u2.rank[rootY]
  IN  IF rootX = rootY THEN u2
      ELSE IF rankX < rankY THEN [u2 EXCEPT !.parent[rootX] = rootY]
      ELSE IF rankX > rankY THEN [u2 EXCEPT !.parent[rootY] = rootX]
      ELSE [u2 EXCEPT !.parent[rootY] = rootX, !.rank[rootX] = rankX + 1]

Connected(u, x, y) ==
  LET fx == Find(u, x)
      fy == Find(fx.uf, y)
  IN  [uf |-> fy.uf, ret |-> (fx.root = fy.root)]

InSeq(s, e) == \E i \in 1..Len(s) : s[i] = e

\* getRoots(): a JS Set keeps first-insertion order.
RECURSIVE GetRootsFrom(_, _, _)
GetRootsFrom(u, i, roots) ==
  IF i > Len(u.keys) THEN [uf |-> u, ret |-> roots]
  ELSE LET f == Find(u, u.keys[i]) IN
         GetRootsFrom(f.uf, i + 1,
                      IF InSeq(roots, f.root) THEN roots ELSE Append(roots, f.root))

GetRoots(u) == GetRootsFrom(u, 1, <<>>)

\* getGroups() that files every element under its direct parent
RECURSIVE GetGroupsFromParent(_, _, _, _)
GetGroupsFromParent(u, i, order, groups) ==
  IF i > Len(u.keys) THEN [uf |-> u, order |-> order, groups |-> groups]
  ELSE LET element == u.keys[i]
           root    == u.parent[element]
       IN  IF root \in DOMAIN groups
             THEN GetGroupsFromParent(u, i + 1, order,
                                      [groups EXCEPT ![root] = Append(@, element)])
             ELSE GetGroupsFromParent(u, i + 1, Append(order, root),
                                      [k \in DOMAIN groups \cup {root} |->
                                         IF k = root THEN <<element>> ELSE groups[k]])

\* getGroups(): a Map from root to the array of its elements; order is the
\* insertion order of the Map's keys.
RECURSIVE GetGroupsFrom(_, _, _, _)
GetGroupsFrom(u, i, order, groups) ==
  IF i > Len(u.keys) THEN [uf |-> u, order |-> order, groups |-> groups]
  ELSE LET element == u.keys[i]
           f       == Find(u, element)
           root    == f.root
       IN  IF root \in DOMAIN groups
             THEN GetGroupsFrom(f.uf, i + 1, order,
                                [groups EXCEPT ![root] = Append(@, element)])
             ELSE GetGroupsFrom(f.uf, i + 1, Append(order, root),
                                [k \in DOMAIN groups \cup {root} |->
                                   IF k = root THEN <<element>> ELSE groups[k]])

GetGroups(u) == GetGroupsFrom(u, 1, <<>>, [k \in {} |-> <<>>])

(***************************************************************************)
(* circuitSimulator.js: constants.  Voltages in mV, currents in uA; the    *)
(* values handed to cktsim are the strings the code builds with String().  *)
(***************************************************************************)
BATTERY_VOLTAGE == "9"
BATTERY_INTERNAL_RESISTANCE == "0.1"
BULB_RESISTANCE == 500
CURRENT_THRESHOLD == 1000
NORMAL_CURRENT == 18000
BURNOUT_CURRENT == 50000
SHORT_CIRCUIT_CURRENT == 100000
DEFAULT_POT_RESISTANCE == 500
GND_INDEX == -1

\* JS null for groundNet (node ids are the non-empty strings "1", "2", ...,
\* modelled by the positive integers).
Null == 0

\* current through a bulb, uA, for a drop in mV: voltageDrop / BULB_RESISTANCE
BulbCurrent(dropmV) == (dropmV * 1000) \div BULB_RESISTANCE

Abs(x) == IF x < 0 THEN -x ELSE x

\* nodes.find((n) => n.role === role): index of the first such node, 0 if none
FirstWithRole(ns, role) ==
  IF \E i \in 1..Len(ns) : ns[i].role = role
    THEN CHOOSE i \in 1..Len(ns) :
           ns[i].role = role /\ \A j \in 1..(i - 1) : ns[j].role # role
    ELSE 0

IsBattery(c) == c.type = "battery"
IsBulb(c) == c.type = "bulb"
IsPot(c) == c.type = "potentiometer"

\* nodes.filter((n) => n.componentId === id)
NodesOf(ns, id) == SelectSeq(ns, LAMBDA n : n.componentId = id)

(***************************************************************************)
(* buildElectricalNets                                                     *)
(***************************************************************************)
RECURSIVE MakeSetAll(_, _, _)
MakeSetAll(u, ns, i) ==
  IF i > Len(ns) THEN u ELSE MakeSetAll(MakeSet(u, ns[i].id), ns, i + 1)

RECURSIVE UnionAll(_, _, _)
UnionAll(u, conns, i) ==
  IF i > Len(conns) THEN u
  ELSE UnionAll(Union(u, conns[i].fromNodeId, conns[i].toNodeId), conns, i + 1)

RECURSIVE NodeToNetFrom(_, _, _, _)
NodeToNetFrom(u, ns, i, m) ==
  IF i > Len(ns) THEN [uf |-> u, nodeToNet |-> m]
  ELSE LET f == Find(u, ns[i].id) IN
         NodeToNetFrom(f.uf, ns, i + 1,
                       [k \in DOMAIN m \cup {ns[i].id} |->
                          IF k = ns[i].id THEN f.root ELSE m[k]])

BuildElectricalNets(ns, conns) ==
  LET u0 == MakeSetAll(EmptyUF, ns, 1)
      u1 == UnionAll(u0, conns, 1)
  IN  NodeToNetFrom(u1, ns, 1, [k \in {} |-> 0])

(***************************************************************************)
(* assignNetNames                                                          *)
(***************************************************************************)
NetLabel(k) == "net" \o ToString(k)

\* root naming whose counter is never incremented
RECURSIVE NameRootsNoIncrement(_, _, _, _, _)
NameRootsNoIncrement(roots, groundNet, i, netCounter, names) ==
  IF i > Len(roots) THEN names
  ELSE LET root == roots[i]
           name == IF root = groundNet THEN "gnd" ELSE NetLabel(netCounter)
       IN  NameRootsNoIncrement(roots, groundNet, i + 1, netCounter,
                                [k \in DOMAIN names \cup {root} |->
                                   IF k = root THEN name ELSE names[k]])

RECURSIVE NameRoots(_, _, _, _, _)
NameRoots(roots, groundNet, i, netCounter, names) ==
  IF i > Len(roots) THEN names
  ELSE LET root == roots[i]
           isGnd == (root = groundNet)
           name == IF isGnd THEN "gnd" ELSE NetLabel(netCounter)
       IN  NameRoots(roots, groundNet, i + 1,
                     IF isGnd THEN netCounter ELSE netCounter + 1,
                     [k \in DOMAIN names \cup {root} |->
                        IF k = root THEN name ELSE names[k]])

\* assignNetNames that takes the battery-minus node itself as the ground root.
AssignNetNamesNoFind(u, ns) ==
  LET mi == FirstWithRole(ns, "battery_minus")
      groundNet == IF mi # 0 THEN ns[mi].id ELSE Null
      r == GetRoots(u)
  IN  [netNames  |-> NameRoots(r.ret, groundNet, 1, 1, [k \in {} |-> ""]),
       roots     |-> r.ret,
       groundNet |-> groundNet]

\* roots is the insertion order of the netNames Map.
AssignNetNames(u, ns) ==
  LET mi == FirstWithRole(ns, "battery_minus")
      f  == IF mi # 0 THEN Find(u, ns[mi].id) ELSE [uf |-> u, root |-> Null]
      groundNet == f.root
      r == GetRoots(f.uf)
  IN  [netNames  |-> NameRoots(r.ret, groundNet, 1, 1, [k \in {} |-> ""]),
       roots     |-> r.ret,
       groundNet |-> groundNet]

\* getNetName: netNames.get(netRoot) || netRoot
GetNetName(nodeId, nodeToNet, netNames) ==
  LET netRoot == nodeToNet[nodeId] IN
    IF netRoot \in DOMAIN netNames THEN netNames[netRoot] ELSE ToString(netRoot)

(***************************************************************************)
(* getShortedBatteryIds, getAllBatteryIndices                              *)
(***************************************************************************)
PlusIndex(bn) == FirstWithRole(bn, "battery_plus")
MinusIndex(bn) == FirstWithRole(bn, "battery_minus")

\* self-short test that compares the terminals' node ids, not their nets
GetShortedBatteryIdsByNode(comps, ns, nodeToNet) ==
  { b \in { comps[i].id : i \in { j \in 1..Len(comps) : IsBattery(comps[j]) } } :
      LET bn == NodesOf(ns, b)
          p  == PlusIndex(bn)
          m  == MinusIndex(bn)
      IN  /\ p # 0
          /\ m # 0
          /\ bn[p].id = bn[m].id }

GetShortedBatteryIds(comps, ns, nodeToNet) ==
  { b \in { comps[i].id : i \in { j \in 1..Len(comps) : IsBattery(comps[j]) } } :
      LET bn == NodesOf(ns, b)
          p  == PlusIndex(bn)
          m  == MinusIndex(bn)
      IN  /\ p # 0
          /\ m # 0
          /\ nodeToNet[bn[p].id] = nodeToNet[bn[m].id] }

\* battery positions counted from 0
GetAllBatteryIndicesZeroBased(comps) ==
  [i \in 1..Len(SelectSeq(comps, IsBattery)) |-> i - 1]

GetAllBatteryIndices(comps) ==
  [i \in 1..Len(SelectSeq(comps, IsBattery)) |-> i]

(***************************************************************************)
(* simulateCircuit, step 3: the cktsim circuit.  ckt.node hands out the    *)
(* next free index; ground is index -1.  A device is the argument list of  *)
(* one ckt.v / ckt.r call.                                                 *)
(***************************************************************************)
Str(id) == ToString(id)

InternalNodeName(id) == "_" \o Str(id) \o "_internal"

RECURSIVE NetNodes(_, _, _, _)
NetNodes(roots, netNames, i, nodeNames) ==
  IF i > Len(roots) THEN nodeNames
  ELSE NetNodes(roots, netNames, i + 1,
                IF netNames[roots[i]] # "gnd"
                  THEN Append(nodeNames, netNames[roots[i]])
                  ELSE nodeNames)

\* netToIndex.get(netName)
NetIndex(nodeNames, netName) ==
  IF netName = "gnd" THEN GND_INDEX
  ELSE (CHOOSE i \in 1..Len(nodeNames) : nodeNames[i] = netName) - 1

\* getNodeIndex
GetNodeIndex(nodeNames, nodeId, nodeToNet, netNames) ==
  NetIndex(nodeNames, GetNetName(nodeId, nodeToNet, netNames))

\* battery loop that also builds the elements of a self-shorted battery
RECURSIVE AddBatteriesKeepShorted(_, _, _, _, _, _, _, _)
AddBatteriesKeepShorted(batteries, i, ns, nodeToNet, netNames, shorted, ckt, flagged) ==
  IF i > Len(batteries) THEN [ckt |-> ckt, batteryIndices |-> flagged]
  ELSE
    LET battery == batteries[i]
        bn == NodesOf(ns, battery.id)
        p  == PlusIndex(bn)
        m  == MinusIndex(bn)
        fl == IF battery.id \in shorted THEN Append(flagged, i) ELSE flagged
    IN  IF p # 0 /\ m # 0
          THEN
            LET plusIdx  == GetNodeIndex(ckt.nodeNames, bn[p].id, nodeToNet, netNames)
                minusIdx == GetNodeIndex(ckt.nodeNames, bn[m].id, nodeToNet, netNames)
                internalIdx == Len(ckt.nodeNames)
                vdev == [kind |-> "v", n1 |-> internalIdx, n2 |-> minusIdx,
                         value |-> BATTERY_VOLTAGE, name |-> Str(battery.id)]
                rdev == [kind |-> "r", n1 |-> plusIdx, n2 |-> internalIdx,
                         value |-> BATTERY_INTERNAL_RESISTANCE,
                         name |-> Str(battery.id) \o "_Rint"]
            IN  AddBatteriesKeepShorted(batteries, i + 1, ns, nodeToNet, netNames, shorted,
                  [nodeNames |-> Append(ckt.nodeNames, InternalNodeName(battery.id)),
                   devices   |-> ckt.devices \o <<vdev, rdev>>],
                  fl)
          ELSE AddBatteriesKeepShorted(batteries, i + 1, ns, nodeToNet, netNames, shorted,
                                       ckt, fl)

\* battery loop that puts the source between the plus and the minus net and
\* the resistor between the internal net and the minus net
RECURSIVE AddBatteriesSourceOnPlus(_, _, _, _, _, _, _, _)
AddBatteriesSourceOnPlus(batteries, i, ns, nodeToNet, netNames, shorted, ckt, flagged) ==
  IF i > Len(batteries) THEN [ckt |-> ckt, batteryIndices |-> flagged]
  ELSE
    LET battery == batteries[i]
        bn == NodesOf(ns, battery.id)
        p  == PlusIndex(bn)
        m  == MinusIndex(bn)
    IN  IF battery.id \in shorted
          THEN AddBatteriesSourceOnPlus(batteries, i + 1, ns, nodeToNet, netNames,
                                        shorted, ckt, Append(flagged, i))
        ELSE IF p # 0 /\ m # 0
          THEN
            LET plusIdx  == GetNodeIndex(ckt.nodeNames, bn[p].id, nodeToNet, netNames)
                minusIdx == GetNodeIndex(ckt.nodeNames, bn[m].id, nodeToNet, netNames)
                internalIdx == Len(ckt.nodeNames)
                vdev == [kind |-> "v", n1 |-> plusIdx, n2 |-> minusIdx,
                         value |-> BATTERY_VOLTAGE, name |-> Str(battery.id)]
                rdev == [kind |-> "r", n1 |-> internalIdx, n2 |-> minusIdx,
                         value |-> BATTERY_INTERNAL_RESISTANCE,
                         name |-> Str(battery.id) \o "_Rint"]
            IN  AddBatteriesSourceOnPlus(batteries, i + 1, ns, nodeToNet, netNames,
                  shorted,
                  [nodeNames |-> Append(ckt.nodeNames, InternalNodeName(battery.id)),
                   devices   |-> ckt.devices \o <<vdev, rdev>>],
                  flagged)
          ELSE AddBatteriesSourceOnPlus(batteries, i + 1, ns, nodeToNet, netNames,
                                        shorted, ckt, flagged)

\* batteries.forEach((battery, index) => ...)
RECURSIVE AddBatteries(_, _, _, _, _, _, _, _)
AddBatteries(batteries, i, ns, nodeToNet, netNames, shorted, ckt, flagged) ==
  IF i > Len(batteries) THEN [ckt |-> ckt, batteryIndices |-> flagged]
  ELSE
    LET battery == batteries[i]
        bn == NodesOf(ns, battery.id)
        p  == PlusIndex(bn)
        m  == MinusIndex(bn)
    IN  IF battery.id \in shorted
          THEN AddBatteries(batteries, i + 1, ns, nodeToNet, netNames, shorted,
                            ckt, Append(flagged, i))
        ELSE IF p # 0 /\ m # 0
          THEN
            LET plusIdx  == GetNodeIndex(ckt.nodeNames, bn[p].id, nodeToNet, netNames)
                minusIdx == GetNodeIndex(ckt.nodeNames, bn[m].id, nodeToNet, netNames)
                internalIdx == Len(ckt.nodeNames)
                vdev == [kind |-> "v", n1 |-> internalIdx, n2 |-> minusIdx,
                         value |-> BATTERY_VOLTAGE, name |-> Str(battery.id)]
                rdev == [kind |-> "r", n1 |-> plusIdx, n2 |-> internalIdx,
                         value |-> BATTERY_INTERNAL_RESISTANCE,
                         name |-> Str(battery.id) \o "_Rint"]
            IN  AddBatteries(batteries, i + 1, ns, nodeToNet, netNames, shorted,
                  [nodeNames |-> Append(ckt.nodeNames, InternalNodeName(battery.id)),
                   devices   |-> ckt.devices \o <<vdev, rdev>>],
                  flagged)
          ELSE AddBatteries(batteries, i + 1, ns, nodeToNet, netNames, shorted,
                            ckt, flagged)

\* resistor loop that takes the first and last node of any non-empty node list
RECURSIVE AddResistorsAnyCount(_, _, _, _, _, _, _)
AddResistorsAnyCount(comps, i, ns, nodeToNet, netNames, ckt, isBulbs) ==
  IF i > Len(comps) THEN ckt
  ELSE
    LET c  == comps[i]
        cn == NodesOf(ns, c.id)
    IN  IF Len(cn) >= 1
          THEN
            LET idx1 == GetNodeIndex(ckt.nodeNames, cn[1].id, nodeToNet, netNames)
                idx2 == GetNodeIndex(ckt.nodeNames, cn[Len(cn)].id, nodeToNet, netNames)
                resistance == IF isBulbs THEN BULB_RESISTANCE
                              ELSE IF c.resistance # 0 THEN c.resistance
                              ELSE DEFAULT_POT_RESISTANCE
                rdev == [kind |-> "r", n1 |-> idx1, n2 |-> idx2,
                         value |-> Str(resistance), name |-> Str(c.id)]
            IN  AddResistorsAnyCount(comps, i + 1, ns, nodeToNet, netNames,
                                     [ckt EXCEPT !.devices = Append(@, rdev)], isBulbs)
          ELSE AddResistorsAnyCount(comps, i + 1, ns, nodeToNet, netNames, ckt, isBulbs)

\* resistor loop that takes a potentiometer's resistance as it is
RECURSIVE AddResistorsNoDefault(_, _, _, _, _, _, _)
AddResistorsNoDefault(comps, i, ns, nodeToNet, netNames, ckt, isBulbs) ==
  IF i > Len(comps) THEN ckt
  ELSE
    LET c  == comps[i]
        cn == NodesOf(ns, c.id)
    IN  IF Len(cn) = 2
          THEN
            LET idx1 == GetNodeIndex(ckt.nodeNames, cn[1].id, nodeToNet, netNames)
                idx2 == GetNodeIndex(ckt.nodeNames, cn[2].id, nodeToNet, netNames)
                resistance == IF isBulbs THEN BULB_RESISTANCE ELSE c.resistance
                rdev == [kind |-> "r", n1 |-> idx1, n2 |-> idx2,
                         value |-> Str(resistance), name |-> Str(c.id)]
            IN  AddResistorsNoDefault(comps, i + 1, ns, nodeToNet, netNames,
                                      [ckt EXCEPT !.devices = Append(@, rdev)], isBulbs)
          ELSE AddResistorsNoDefault(comps, i + 1, ns, nodeToNet, netNames, ckt, isBulbs)

\* bulbs.forEach / pots.forEach: one resistor per component with two nodes
RECURSIVE AddResistors(_, _, _, _, _, _, _)
AddResistors(comps, i, ns, nodeToNet, netNames, ckt, isBulbs) ==
  IF i > Len(comps) THEN ckt
  ELSE
    LET c  == comps[i]
        cn == NodesOf(ns, c.id)
    IN  IF Len(cn) = 2
          THEN
            LET idx1 == GetNodeIndex(ckt.nodeNames, cn[1].id, nodeToNet, netNames)
                idx2 == GetNodeIndex(ckt.nodeNames, cn[2].id, nodeToNet, netNames)
                resistance == IF isBulbs THEN BULB_RESISTANCE
                              ELSE IF c.resistance # 0 THEN c.resistance
                              ELSE DEFAULT_POT_RESISTANCE
                rdev == [kind |-> "r", n1 |-> idx1, n2 |-> idx2,
                         value |-> Str(resistance), name |-> Str(c.id)]
            IN  AddResistors(comps, i + 1, ns, nodeToNet, netNames,
                             [ckt EXCEPT !.devices = Append(@, rdev)], isBulbs)
          ELSE AddResistors(comps, i + 1, ns, nodeToNet, netNames, ckt, isBulbs)

\* lines 298-403: the circuit handed to the solver and the self-short flags
BuildCircuit(comps, ns, nodeToNet, nm) ==
  LET ckt0 == [nodeNames |-> NetNodes(nm.roots, nm.netNames, 1, <<>>),
               devices   |-> <<>>]
      shorted == GetShortedBatteryIds(comps, ns, nodeToNet)
      b == AddBatteries(SelectSeq(comps, IsBattery), 1, ns, nodeToNet, nm.netNames,
                        shorted, ckt0, <<>>)
      c1 == AddResistors(SelectSeq(comps, IsBulb), 1, ns, nodeToNet, nm.netNames,
                         b.ckt, TRUE)
      c2 == AddResistors(SelectSeq(comps, IsPot), 1, ns, nodeToNet, nm.netNames,
                         c1, FALSE)
  IN  [ckt |-> c2, batteryIndices |-> b.batteryIndices]

(***************************************************************************)
(* simulateCircuit, step 5: reading the solver's answer.  dcV is the part  *)
(* of dcResult keyed by node names, dcI the part keyed "I(<source>)".      *)
(***************************************************************************)
EmptyMap == [k \in {} |-> 0]

MinimalResult ==
  [hasClosedLoop  |-> FALSE,
   bulbsOnCount   |-> 0,
   bulbStates     |-> EmptyMap,
   nodeVoltages   |-> EmptyMap,
   totalCurrent   |-> 0,
   batteryIndices |-> <<>>]

DefaultBulbState == [isOn |-> FALSE, current |-> 0, voltage |-> 0, power |-> 0]

\* initial result without the bulb states
InitialResultNoBulbs(comps) == MinimalResult

\* result with every bulb state initialised to off (lines 266-285)
InitialResult(comps) ==
  [MinimalResult EXCEPT !.bulbStates =
     [b \in { comps[i].id : i \in { j \in 1..Len(comps) : IsBulb(comps[j]) } } |->
        DefaultBulbState]]

\* totalCurrent that keeps the first defined branch current
RECURSIVE TotalCurrentFirst(_, _, _, _)
TotalCurrentFirst(batteries, i, dcI, total) ==
  IF i > Len(batteries) THEN total
  ELSE IF Str(batteries[i].id) \in DOMAIN dcI
    THEN Abs(dcI[Str(batteries[i].id)])
    ELSE TotalCurrentFirst(batteries, i + 1, dcI, total)

\* batteries.forEach: every defined I(battery.id) overwrites totalCurrent
RECURSIVE TotalCurrent(_, _, _, _)
TotalCurrent(batteries, i, dcI, total) ==
  IF i > Len(batteries) THEN total
  ELSE TotalCurrent(batteries, i + 1, dcI,
                    IF Str(batteries[i].id) \in DOMAIN dcI
                      THEN Abs(dcI[Str(batteries[i].id)])
                      ELSE total)

BrightnessDen == NORMAL_CURRENT - CURRENT_THRESHOLD

Min(a, b) == IF a < b THEN a ELSE b
Max(a, b) == IF a > b THEN a ELSE b

\* bulb state with the comparisons of lines 464-465 made non-strict
BulbStateNonStrict(v1, v2) ==
  LET voltageDrop == Abs(v1 - v2)
      current     == BulbCurrent(voltageDrop)
      power       == voltageDrop * current
      isBurnedOut == current >= BURNOUT_CURRENT
      isOn        == ~isBurnedOut /\ current >= CURRENT_THRESHOLD
      brightness  == IF isOn
                       THEN Max(0, Min(current - CURRENT_THRESHOLD, 2 * BrightnessDen))
                       ELSE 0
  IN  [isOn |-> isOn, isBurnedOut |-> isBurnedOut, brightness |-> brightness,
       current |-> current, voltage |-> voltageDrop,
       voltageNode1 |-> v1, voltageNode2 |-> v2, power |-> power]

\* bulb state whose brightness is not capped at 2
BulbStateNoCap(v1, v2) ==
  LET voltageDrop == Abs(v1 - v2)
      current     == BulbCurrent(voltageDrop)
      power       == voltageDrop * current
      isBurnedOut == current > BURNOUT_CURRENT
      isOn        == ~isBurnedOut /\ current > CURRENT_THRESHOLD
      brightness  == IF isOn THEN Max(0, current - CURRENT_THRESHOLD) ELSE 0
  IN  [isOn |-> isOn, isBurnedOut |-> isBurnedOut, brightness |-> brightness,
       current |-> current, voltage |-> voltageDrop,
       voltageNode1 |-> v1, voltageNode2 |-> v2, power |-> power]

\* lines 459-489; brightness is the numerator over BrightnessDen, power in nW
BulbState(v1, v2) ==
  LET voltageDrop == Abs(v1 - v2)
      current     == BulbCurrent(voltageDrop)
      power       == voltageDrop * current
      isBurnedOut == current > BURNOUT_CURRENT
      isOn        == ~isBurnedOut /\ current > CURRENT_THRESHOLD
      brightness  == IF isOn
                       THEN Max(0, Min(current - CURRENT_THRESHOLD, 2 * BrightnessDen))
                       ELSE 0
  IN  [isOn |-> isOn, isBurnedOut |-> isBurnedOut, brightness |-> brightness,
       current |-> current, voltage |-> voltageDrop,
       voltageNode1 |-> v1, voltageNode2 |-> v2, power |-> power]

\* 'gnd' is always 0 V; a missing key reads as 0 (dcResult[net] ?? 0)
NetVoltage(dcV, net) ==
  IF net = "gnd" THEN 0 ELSE IF net \in DOMAIN dcV THEN dcV[net] ELSE 0

\* bulb loop that sets the loop flag for an on bulb without counting it
RECURSIVE BulbLoopNoCount(_, _, _, _, _, _, _)
BulbLoopNoCount(bulbs, i, ns, nodeToNet, netNames, dcV, res) ==
  IF i > Len(bulbs) THEN res
  ELSE
    LET bulb == bulbs[i]
        bn   == NodesOf(ns, bulb.id)
    IN  IF Len(bn) = 2
          THEN
            LET net1 == GetNetName(bn[1].id, nodeToNet, netNames)
                net2 == GetNetName(bn[2].id, nodeToNet, netNames)
                st   == BulbState(NetVoltage(dcV, net1), NetVoltage(dcV, net2))
                r1   == [res EXCEPT !.bulbStates[bulb.id] = st]
                r2   == IF st.isOn THEN [r1 EXCEPT !.hasClosedLoop = TRUE] ELSE r1
            IN  BulbLoopNoCount(bulbs, i + 1, ns, nodeToNet, netNames, dcV, r2)
          ELSE BulbLoopNoCount(bulbs, i + 1, ns, nodeToNet, netNames, dcV, res)

\* bulbs.forEach of lines 449-501
RECURSIVE BulbLoop(_, _, _, _, _, _, _)
BulbLoop(bulbs, i, ns, nodeToNet, netNames, dcV, res) ==
  IF i > Len(bulbs) THEN res
  ELSE
    LET bulb == bulbs[i]
        bn   == NodesOf(ns, bulb.id)
    IN  IF Len(bn) = 2
          THEN
            LET net1 == GetNetName(bn[1].id, nodeToNet, netNames)
                net2 == GetNetName(bn[2].id, nodeToNet, netNames)
                st   == BulbState(NetVoltage(dcV, net1), NetVoltage(dcV, net2))
                r1   == [res EXCEPT !.bulbStates[bulb.id] = st]
                r2   == IF st.isOn
                          THEN [r1 EXCEPT !.bulbsOnCount = @ + 1,
                                          !.hasClosedLoop = TRUE]
                          ELSE r1
            IN  BulbLoop(bulbs, i + 1, ns, nodeToNet, netNames, dcV, r2)
          ELSE BulbLoop(bulbs, i + 1, ns, nodeToNet, netNames, dcV, res)

\* result extraction without the closed-loop check of lines 504-506
ExtractResultsNoLoopCheck(res, comps, ns, nodeToNet, netNames, dcV, dcI) ==
  LET r1 == [res EXCEPT !.nodeVoltages = dcV,
                        !.totalCurrent =
                           TotalCurrent(SelectSeq(comps, IsBattery), 1, dcI, res.totalCurrent)]
  IN  BulbLoop(SelectSeq(comps, IsBulb), 1, ns, nodeToNet, netNames, dcV, r1)

\* lines 427-506: voltages, total current, bulb states, closed-loop flag
ExtractResults(res, comps, ns, nodeToNet, netNames, dcV, dcI) ==
  LET r1 == [res EXCEPT !.nodeVoltages = dcV,
                        !.totalCurrent =
                           TotalCurrent(SelectSeq(comps, IsBattery), 1, dcI, res.totalCurrent)]
      r2 == BulbLoop(SelectSeq(comps, IsBulb), 1, ns, nodeToNet, netNames, dcV, r1)
  IN  IF ~r2.hasClosedLoop /\ r2.totalCurrent > CURRENT_THRESHOLD
        THEN [r2 EXCEPT !.hasClosedLoop = TRUE]
        ELSE r2

\* the no-load check that never overwrites the list
NoLoadShortKeep(res, comps) == res

\* lines 508-512
NoLoadShort(res, comps) ==
  IF /\ res.totalCurrent > SHORT_CIRCUIT_CURRENT
     /\ res.bulbsOnCount = 0
     /\ Len(SelectSeq(comps, IsBattery)) > 0
    THEN [res EXCEPT !.batteryIndices = GetAllBatteryIndices(comps)]
    ELSE res

(***************************************************************************)
(* The inputs of simulateCircuit.  Components get the ids makeId() hands   *)
(* out in handlePlaceComponent: component i has id 3i-2 and the nodes      *)
(* 3i-1 (left) and 3i (right).  One component may miss one or both of its  *)
(* nodes or have a third one (malformed topology).                         *)
(***************************************************************************)
CompTypes == {"battery", "bulb", "potentiometer"}

\* resistance of a potentiometer: 0 stands for an unset value
PotValues == {0, 250}

\* what the solver may answer: node voltages (mV) and branch currents (uA).
\* The drops between these voltages and ground give bulb currents of 1 mA,
\* 18 mA, 19 mA, 32 mA, 50 mA and 51 mA.
Volts == {500, 9500, 25500}
Currents == {1000, 100000, -100001}

GetRole(type, side) ==
  IF type = "battery" THEN (IF side = "left" THEN "battery_minus" ELSE "battery_plus")
  ELSE IF type = "bulb" THEN "bulb"
  ELSE IF type = "potentiometer" THEN "potentiometer"
  ELSE "none"

ComponentAt(i, type, r) == [id |-> 3 * i - 2, type |-> type, resistance |-> r]

NodeA(i, type) == [id |-> 3 * i - 1, componentId |-> 3 * i - 2, role |-> GetRole(type, "left")]
NodeB(i, type) == [id |-> 3 * i, componentId |-> 3 * i - 2, role |-> GetRole(type, "right")]

\* a third node of component i, with an id no other node has
NodeC(i, type, n) ==
  [id |-> 3 * n + 1, componentId |-> 3 * i - 2, role |-> GetRole(type, "right")]

\* how the one malformed component deviates: a node is missing, both are,
\* or (bulbs and potentiometers) there is a third one
Deviations == {"left", "right", "both", "extra"}

RECURSIVE NodesFor(_, _, _, _)
NodesFor(types, i, bad, drop) ==
  IF i > Len(types) THEN <<>>
  ELSE (IF i = bad /\ drop \in {"left", "both"} THEN <<>> ELSE <<NodeA(i, types[i])>>)
       \o (IF i = bad /\ drop \in {"right", "both"} THEN <<>> ELSE <<NodeB(i, types[i])>>)
       \o (IF i = bad /\ drop = "extra" THEN <<NodeC(i, types[i], Len(types))>> ELSE <<>>)
       \o NodesFor(types, i + 1, bad, drop)

\* the arguments that may be undefined or an empty array; an undefined
\* argument is held as the empty sequence and named in absent
ArgNames == {"nodes", "components"}

\* empty-input test that looks at nodes only
NoInputNodesOnly(ab, ns, comps) == "nodes" \in ab \/ Len(ns) = 0

\* !nodes?.length || !components?.length
NoInput(ab, ns, comps) ==
  \/ "nodes" \in ab \/ Len(ns) = 0
  \/ "components" \in ab \/ Len(comps) = 0

NodeIds(ns) == { ns[i].id : i \in 1..Len(ns) }

\* candidate wires, written from the lower to the higher node id
Wires(ns) ==
  { w \in [fromNodeId : NodeIds(ns), toNodeId : NodeIds(ns)] :
      w.fromNodeId < w.toNodeId }

WireBefore(w, v) ==
  \/ w.fromNodeId < v.fromNodeId
  \/ w.fromNodeId = v.fromNodeId /\ w.toNodeId < v.toNodeId

RECURSIVE WireSeq(_)
WireSeq(S) ==
  IF S = {} THEN <<>>
  ELSE LET w == CHOOSE w \in S : \A v \in S \ {w} : WireBefore(w, v)
       IN  <<w>> \o WireSeq(S \ {w})

\* the connection lists tried: up to MaxWires distinct wires
WireSeqs(ns) ==
  { WireSeq(S) : S \in { T \in SUBSET Wires(ns) : Cardinality(T) <= MaxWires } }

NoNets == [uf |-> EmptyUF, nodeToNet |-> EmptyMap]
NoNames == [netNames |-> [k \in {} |-> ""], roots |-> <<>>, groundNet |-> Null]
NoCircuit == [nodeNames |-> <<>>, devices |-> <<>>]
NoAnswer == [status |-> "none", V |-> EmptyMap, I |-> EmptyMap]

(***************************************************************************)
(* The editor (App.jsx): circuitReducer and the state it works on.         *)
(***************************************************************************)
\* how many ids makeId() hands out at most
MaxMade == 6

\* the grid positions tried for placing and moving
Cells == {[x |-> 2, y |-> 1], [x |-> 5, y |-> 3]}

\* the positions the pointer hovers over
HoverCells == {[x |-> 2, y |-> 1]}

\* hoverPosition null
NoPosition == [x |-> 0, y |-> 0]

\* isDraggingFromPalette null
NoTool == "null"

\* the tools tried: the default one and a component tool
Tools == {"select", "bulb"}

initialState ==
  [components |-> <<>>, nodes |-> <<>>, connections |-> <<>>,
   selectedTool |-> "select", pendingWireStartNodeId |-> Null,
   hoverPosition |-> NoPosition, isDraggingFromPalette |-> NoTool]

getTerminalPositions(type, x, y) ==
  LET terminalY == y + 1 IN
    IF type = "battery"
      THEN [left |-> [x |-> x - 1, y |-> terminalY], right |-> [x |-> x + 1, y |-> terminalY]]
    ELSE IF type = "bulb"
      THEN [left |-> [x |-> x, y |-> terminalY], right |-> [x |-> x + 1, y |-> terminalY]]
    ELSE IF type = "potentiometer"
      THEN [left |-> [x |-> x, y |-> terminalY], right |-> [x |-> x + 2, y |-> terminalY]]
    ELSE [left |-> [x |-> x - 1, y |-> terminalY], right |-> [x |-> x + 1, y |-> terminalY]]

presets == <<100, 250, 500, 1000, 2000, 5000, 10000>>

\* presets.indexOf(v): 0-based, -1 when v is not a preset
IndexOf(seq, v) ==
  IF \E i \in 1..Len(seq) : seq[i] = v
    THEN (CHOOSE i \in 1..Len(seq) : seq[i] = v /\ \A j \in 1..(i - 1) : seq[j] # v) - 1
    ELSE -1

\* the ids of the nodes of a component
ComponentNodeIds(st, componentId) ==
  { st.nodes[i].id : i \in { j \in 1..Len(st.nodes) : st.nodes[j].componentId = componentId } }

PLACE_COMPONENT(st, a) ==
  LET newComponent ==
        IF a.componentType = "potentiometer"
          THEN [id |-> a.componentId, type |-> a.componentType, x |-> a.x, y |-> a.y,
                resistance |-> 500]
          ELSE [id |-> a.componentId, type |-> a.componentType, x |-> a.x, y |-> a.y]
      terminals == getTerminalPositions(a.componentType, a.x, a.y)
      nodeA == [id |-> a.nodeAId, componentId |-> a.componentId,
                x |-> terminals.left.x, y |-> terminals.left.y,
                role |-> GetRole(a.componentType, "left")]
      nodeB == [id |-> a.nodeBId, componentId |-> a.componentId,
                x |-> terminals.right.x, y |-> terminals.right.y,
                role |-> GetRole(a.componentType, "right")]
  IN  [st EXCEPT !.components = Append(@, newComponent),
                 !.nodes = @ \o <<nodeA, nodeB>>,
                 !.isDraggingFromPalette = NoTool,
                 !.hoverPosition = NoPosition]

\* deletion that leaves the nodes of the component on the board
DELETE_COMPONENT_KeepsNodes(st, a) ==
  LET componentNodeIds == ComponentNodeIds(st, a.componentId)
      newPendingWireStartNodeId ==
        IF st.pendingWireStartNodeId # Null /\ st.pendingWireStartNodeId \in componentNodeIds
          THEN Null
          ELSE st.pendingWireStartNodeId
  IN  [st EXCEPT
         !.components = SelectSeq(@, LAMBDA c : c.id # a.componentId),
         !.connections = SelectSeq(@, LAMBDA c : /\ c.fromNodeId \notin componentNodeIds
                                                 /\ c.toNodeId \notin componentNodeIds),
         !.pendingWireStartNodeId = newPendingWireStartNodeId]

\* deletion that leaves the wires of the component on the board
DELETE_COMPONENT_KeepsWires(st, a) ==
  LET componentNodeIds == ComponentNodeIds(st, a.componentId)
      newPendingWireStartNodeId ==
        IF st.pendingWireStartNodeId # Null /\ st.pendingWireStartNodeId \in componentNodeIds
          THEN Null
          ELSE st.pendingWireStartNodeId
  IN  [st EXCEPT
         !.components = SelectSeq(@, LAMBDA c : c.id # a.componentId),
         !.nodes = SelectSeq(@, LAMBDA n : n.componentId # a.componentId),
         !.pendingWireStartNodeId = newPendingWireStartNodeId]

DELETE_COMPONENT(st, a) ==
  LET componentNodeIds == ComponentNodeIds(st, a.componentId)
      newPendingWireStartNodeId ==
        IF st.pendingWireStartNodeId # Null /\ st.pendingWireStartNodeId \in componentNodeIds
          THEN Null
          ELSE st.pendingWireStartNodeId
  IN  [st EXCEPT
         !.components = SelectSeq(@, LAMBDA c : c.id # a.componentId),
         !.nodes = SelectSeq(@, LAMBDA n : n.componentId # a.componentId),
         !.connections = SelectSeq(@, LAMBDA c : /\ c.fromNodeId \notin componentNodeIds
                                                 /\ c.toNodeId \notin componentNodeIds),
         !.pendingWireStartNodeId = newPendingWireStartNodeId]

MOVE_COMPONENT(st, a) ==
  IF ~\E i \in 1..Len(st.components) : st.components[i].id = a.componentId
    THEN st
  ELSE
    LET component == st.components[CHOOSE i \in 1..Len(st.components) :
                                     /\ st.components[i].id = a.componentId
                                     /\ \A j \in 1..(i - 1) : st.components[j].id # a.componentId]
        terminals == getTerminalPositions(component.type, a.newX, a.newY)
        componentNodes == SelectSeq(st.nodes, LAMBDA n : n.componentId = a.componentId)
        \* [...componentNodes].sort((a, b) => a.x - b.x), a stable sort of two
        swapped == componentNodes[1].x > componentNodes[2].x
        leftNodeId == IF swapped THEN componentNodes[2].id ELSE componentNodes[1].id
        rightNodeId == IF swapped THEN componentNodes[1].id ELSE componentNodes[2].id
        newNodes ==
          IF Len(componentNodes) = 2
            THEN [i \in 1..Len(st.nodes) |->
                    IF st.nodes[i].id = leftNodeId
                      THEN [st.nodes[i] EXCEPT !.x = terminals.left.x, !.y = terminals.left.y]
                    ELSE IF st.nodes[i].id = rightNodeId
                      THEN [st.nodes[i] EXCEPT !.x = terminals.right.x, !.y = terminals.right.y]
                    ELSE st.nodes[i]]
            ELSE st.nodes
    IN  [st EXCEPT
           !.components = [i \in 1..Len(st.components) |->
                             IF st.components[i].id = a.componentId
                               THEN [st.components[i] EXCEPT !.x = a.newX, !.y = a.newY]
                               ELSE st.components[i]],
           !.nodes = newNodes]

\* adjustment that wraps one preset too early
ADJUST_RESISTANCE_ShortLadder(st, a) ==
  [st EXCEPT !.components =
     [i \in 1..Len(st.components) |->
        LET c == st.components[i] IN
          IF c.id = a.componentId /\ c.type = "potentiometer"
            THEN LET currentIdx == IndexOf(presets, c.resistance)
                     nextIdx == (currentIdx + 1) % (Len(presets) - 1)
                 IN  [c EXCEPT !.resistance = presets[nextIdx + 1]]
            ELSE c]]

ADJUST_RESISTANCE(st, a) ==
  [st EXCEPT !.components =
     [i \in 1..Len(st.components) |->
        LET c == st.components[i] IN
          IF c.id = a.componentId /\ c.type = "potentiometer"
            THEN LET currentIdx == IndexOf(presets, c.resistance)
                     nextIdx == (currentIdx + 1) % Len(presets)
                 IN  [c EXCEPT !.resistance = presets[nextIdx + 1]]
            ELSE c]]

START_WIRE(st, a) == [st EXCEPT !.pendingWireStartNodeId = a.nodeId]

COMPLETE_WIRE(st, a) ==
  LET newConnection == [id |-> a.connectionId,
                        fromNodeId |-> st.pendingWireStartNodeId,
                        toNodeId |-> a.toNodeId]
  IN  [st EXCEPT !.connections = Append(@, newConnection),
                 !.pendingWireStartNodeId = Null]

CANCEL_WIRE(st, a) == [st EXCEPT !.pendingWireStartNodeId = Null]

DELETE_WIRE(st, a) ==
  [st EXCEPT !.connections = SelectSeq(@, LAMBDA c : c.id # a.connectionId)]

SET_SELECTED_TOOL(st, a) == [st EXCEPT !.selectedTool = a.tool]

START_PALETTE_DRAG(st, a) == [st EXCEPT !.isDraggingFromPalette = a.toolId]

SET_HOVER_POSITION(st, a) == [st EXCEPT !.hoverPosition = a.position]

DRAG_END(st, a) ==
  [st EXCEPT !.isDraggingFromPalette = NoTool, !.hoverPosition = NoPosition]

CANCEL_PLACEMENT(st, a) ==
  [st EXCEPT !.selectedTool = "select", !.isDraggingFromPalette = NoTool,
             !.hoverPosition = NoPosition]

circuitReducer(st, a) ==
  CASE a.type = "PLACE_COMPONENT"    -> PLACE_COMPONENT(st, a)
    [] a.type = "DELETE_COMPONENT"   -> DELETE_COMPONENT(st, a)
    [] a.type = "MOVE_COMPONENT"     -> MOVE_COMPONENT(st, a)
    [] a.type = "ADJUST_RESISTANCE"  -> ADJUST_RESISTANCE(st, a)
    [] a.type = "START_WIRE"         -> START_WIRE(st, a)
    [] a.type = "COMPLETE_WIRE"      -> COMPLETE_WIRE(st, a)
    [] a.type = "CANCEL_WIRE"        -> CANCEL_WIRE(st, a)
    [] a.type = "DELETE_WIRE"        -> DELETE_WIRE(st, a)
    [] a.type = "SET_SELECTED_TOOL"  -> SET_SELECTED_TOOL(st, a)
    [] a.type = "START_PALETTE_DRAG" -> START_PALETTE_DRAG(st, a)
    [] a.type = "SET_HOVER_POSITION" -> SET_HOVER_POSITION(st, a)
    [] a.type = "DRAG_END"           -> DRAG_END(st, a)
    [] a.type = "CANCEL_PLACEMENT"   -> CANCEL_PLACEMENT(st, a)
    [] OTHER                         -> st

VARIABLES
  state,       \* the state useReducer holds in App
  nextId,      \* the counter behind makeId()
  uf,          \* the UnionFind instance under test
  comp,        \* history: comp[i] is the least id of i's component in the
               \* graph whose edges are the pairs passed to union so far
  pass,        \* 1 in the first call of simulateCircuit, 2 in a repeated call
  first,       \* what the first call left behind, once a second call began
  absent,      \* the arguments among nodes, components passed as undefined
  components,  \* input of simulateCircuit
  nodes,       \* input of simulateCircuit
  connections, \* input of simulateCircuit
  pc,          \* position inside simulateCircuit
  nets,        \* { uf, nodeToNet } of buildElectricalNets
  names,       \* { netNames, groundNet } of assignNetNames
  ckt,         \* the cktsim circuit built so far
  dc,          \* what ckt.dc() did: status and dcResult
  result       \* the result object

simVars == <<state, nextId, pass, first, absent, components, nodes, connections, pc, nets, names, ckt, dc, result>>
vars == <<state, nextId, uf, comp, pass, first, absent, components, nodes, connections, pc, nets, names, ckt, dc, result>>

\* first before any second call
NoFirst ==
  [result |-> MinimalResult, dc |-> NoAnswer, ckt |-> NoCircuit,
   nets |-> NoNets, names |-> NoNames]

SimIdle ==
  /\ state = initialState
  /\ nextId = 1
  /\ pass = 1
  /\ first = NoFirst
  /\ absent = {}
  /\ components = <<>>
  /\ nodes = <<>>
  /\ connections = <<>>
  /\ pc = "idle"
  /\ nets = NoNets
  /\ names = NoNames
  /\ ckt = NoCircuit
  /\ dc = NoAnswer
  /\ result = MinimalResult

UFInit ==
  /\ uf = EmptyUF
  /\ comp = [i \in Ids |-> i]
  /\ SimIdle

UFMakeSet(x) ==
  /\ uf' = MakeSet(uf, x)
  /\ UNCHANGED <<comp, simVars>>

UFFind(x) ==
  /\ uf' = Find(uf, x).uf
  /\ UNCHANGED <<comp, simVars>>

UFUnion(x, y) ==
  /\ uf' = Union(uf, x, y)
  /\ comp' = [i \in Ids |->
                IF comp[i] = comp[x] \/ comp[i] = comp[y]
                  THEN Min(comp[x], comp[y])
                  ELSE comp[i]]
  /\ UNCHANGED simVars

UFConnected(x, y) ==
  /\ uf' = Connected(uf, x, y).uf
  /\ UNCHANGED <<comp, simVars>>

UFGetRoots ==
  /\ uf' = GetRoots(uf).uf
  /\ UNCHANGED <<comp, simVars>>

UFGetGroups ==
  /\ uf' = GetGroups(uf).uf
  /\ UNCHANGED <<comp, simVars>>

UFNext ==
  \/ \E x \in Ids : UFMakeSet(x)
  \/ \E x \in Ids : UFFind(x)
  \/ \E x, y \in Ids : UFUnion(x, y)
  \/ \E x, y \in Ids : UFConnected(x, y)
  \/ UFGetRoots
  \/ UFGetGroups

SpecUF == UFInit /\ [][UFNext]_vars

(***************************************************************************)
(* simulateCircuit as a sequence of steps.                                 *)
(***************************************************************************)
Init ==
  /\ state = initialState
  /\ nextId = 1
  /\ uf = EmptyUF
  /\ comp = [i \in Ids |-> i]
  /\ pass = 1
  /\ first = NoFirst
  /\ \E n \in 0..MaxNodes :
       \E types \in [1..n -> CompTypes], bad \in 0..n,
          drop \in Deviations :
         /\ bad = 0 => drop = "left"
         /\ drop = "extra" => types[bad] # "battery"
         /\ Len(NodesFor(types, 1, bad, drop)) <=
              MaxNodes + (IF drop = "extra" THEN 1 ELSE 0)
         /\ \E ab \in SUBSET ArgNames, em \in SUBSET ArgNames :
              /\ ab \cap em = {}
              /\ absent = ab
              /\ \E rs \in [1..n -> PotValues] :
                   /\ \A i \in 1..n : types[i] # "potentiometer" => rs[i] = 0
                   /\ components =
                        IF "components" \in ab \cup em THEN <<>>
                        ELSE [i \in 1..n |-> ComponentAt(i, types[i], rs[i])]
              /\ nodes = IF "nodes" \in ab \cup em THEN <<>>
                         ELSE NodesFor(types, 1, bad, drop)
  /\ connections \in WireSeqs(nodes)
  /\ pc = "start"
  /\ nets = NoNets
  /\ names = NoNames
  /\ ckt = NoCircuit
  /\ dc = NoAnswer
  /\ result = MinimalResult

\* the call that keeps the result object of the call before
BeginKeepsResult ==
  /\ pc = "start"
  /\ IF NoInput(absent, nodes, components)
       THEN /\ result' = MinimalResult
            /\ pc' = "done"
       ELSE /\ result' = IF pass = 2 THEN result ELSE InitialResult(components)
            /\ pc' = "nets"
  /\ UNCHANGED <<state, nextId, uf, comp, pass, first, absent, components, nodes, connections, nets, names, ckt, dc>>

\* lines 250-285: the empty-input return, else the initial result
Begin ==
  /\ pc = "start"
  /\ IF NoInput(absent, nodes, components)
       THEN /\ result' = MinimalResult
            /\ pc' = "done"
       ELSE /\ result' = InitialResult(components)
            /\ pc' = "nets"
  /\ UNCHANGED <<state, nextId, uf, comp, pass, first, absent, components, nodes, connections, nets, names, ckt, dc>>

\* lines 287-296: nets, net names, and the return when there is no ground
BuildNets ==
  /\ pc = "nets"
  /\ LET bn == BuildElectricalNets(nodes, connections)
         nm == AssignNetNames(bn.uf, nodes)
     IN  /\ nets' = bn
         /\ names' = nm
         /\ pc' = IF nm.groundNet = Null THEN "done" ELSE "translate"
  /\ UNCHANGED <<state, nextId, uf, comp, pass, first, absent, components, nodes, connections, ckt, dc, result>>

\* lines 298-403: the netlist; self-shorted batteries are flagged
Translate ==
  /\ pc = "translate"
  /\ LET b == BuildCircuit(components, nodes, nets.nodeToNet, names)
     IN  /\ ckt' = b.ckt
         /\ result' = [result EXCEPT !.batteryIndices = b.batteryIndices]
  /\ pc' = "solve"
  /\ UNCHANGED <<state, nextId, uf, comp, pass, first, absent, components, nodes, connections, nets, names, dc>>

\* lines 298-403 lie outside the try block: an exception raised by a cktsim
\* call there leaves simulateCircuit
TranslateThrows ==
  /\ pc = "translate"
  /\ pc' = "threw"
  /\ UNCHANGED <<state, nextId, uf, comp, pass, first, absent, components, nodes, connections, nets, names, ckt, dc, result>>

\* lines 414-425: ckt.dc() returns undefined
DcFails ==
  /\ pc = "solve"
  /\ dc' = [NoAnswer EXCEPT !.status = "undefined"]
  /\ result' = [result EXCEPT !.batteryIndices = GetAllBatteryIndices(components)]
  /\ pc' = "done"
  /\ UNCHANGED <<state, nextId, uf, comp, pass, first, absent, components, nodes, connections, nets, names, ckt>>

\* lines 414, 513-517: ckt.dc() throws, the catch block flags all batteries
DcThrows ==
  /\ pc = "solve"
  /\ dc' = [NoAnswer EXCEPT !.status = "threw"]
  /\ result' = [result EXCEPT !.batteryIndices = GetAllBatteryIndices(components)]
  /\ pc' = "done"
  /\ UNCHANGED <<state, nextId, uf, comp, pass, first, absent, components, nodes, connections, nets, names, ckt>>

\* the node names cktsim knows that stand for wire nets
WireNetNames == { names.netNames[r] : r \in DOMAIN names.netNames } \ {"gnd"}

SourceNames == { ckt.devices[i].name :
                   i \in { j \in 1..Len(ckt.devices) : ckt.devices[j].kind = "v" } }

\* voltage of every cktsim node, given the voltages g of the wire nets: the
\* internal node of a battery sits 9 V above the battery's minus net
SolvedVoltages(g) ==
  [nm \in { ckt.nodeNames[i] : i \in 1..Len(ckt.nodeNames) } |->
     IF nm \in DOMAIN g THEN g[nm]
     ELSE LET k == NetIndex(ckt.nodeNames, nm)
              d == CHOOSE d \in { ckt.devices[i] : i \in 1..Len(ckt.devices) } :
                     d.kind = "v" /\ d.n1 = k
          IN  (IF d.n2 = GND_INDEX THEN 0 ELSE g[ckt.nodeNames[d.n2 + 1]]) + 9000]

\* lines 414-506: ckt.dc() returns a solution and the result is read from it
DcSolves ==
  /\ pc = "solve"
  /\ \E g \in [WireNetNames -> Volts] :
       \E S \in SUBSET SourceNames :
         \E i \in [S -> Currents] :
           /\ dc' = [status |-> "ok", V |-> SolvedVoltages(g), I |-> i]
           /\ result' = ExtractResults(result, components, nodes, nets.nodeToNet,
                                       names.netNames, SolvedVoltages(g), i)
  /\ pc' = "shortcheck"
  /\ UNCHANGED <<state, nextId, uf, comp, pass, first, absent, components, nodes, connections, nets, names, ckt>>

\* lines 508-512, 519
ShortCheck ==
  /\ pc = "shortcheck"
  /\ result' = NoLoadShort(result, components)
  /\ pc' = "done"
  /\ UNCHANGED <<state, nextId, uf, comp, pass, first, absent, components, nodes, connections, nets, names, ckt, dc>>

Next ==
  \/ Begin
  \/ BuildNets
  \/ Translate
  \/ TranslateThrows
  \/ DcFails
  \/ DcThrows
  \/ DcSolves
  \/ ShortCheck

Spec == Init /\ [][Next]_vars

(***************************************************************************)
(* simulateCircuit called a second time on the same arguments.  Every      *)
(* object of the first call (tables, maps, circuit, result) is a local of  *)
(* that call: the variables keep them until the second call overwrites     *)
(* them with its own.  The solver is a function of the netlist: in the     *)
(* second call it repeats its first answer.                                *)
(***************************************************************************)
\* the answers the solver may give in the first of two calls
TwiceVolts == {500, 9500}
TwiceCurrents == {100001}

FirstDcFails == pass = 1 /\ DcFails

FirstDcThrows == pass = 1 /\ DcThrows

FirstDcSolves ==
  /\ pass = 1
  /\ pc = "solve"
  /\ \E g \in [WireNetNames -> TwiceVolts] :
       \E S \in SUBSET SourceNames :
         \E i \in [S -> TwiceCurrents] :
           /\ dc' = [status |-> "ok", V |-> SolvedVoltages(g), I |-> i]
           /\ result' = ExtractResults(result, components, nodes, nets.nodeToNet,
                                       names.netNames, SolvedVoltages(g), i)
  /\ pc' = "shortcheck"
  /\ UNCHANGED <<state, nextId, uf, comp, pass, first, absent, components, nodes, connections, nets, names, ckt>>

\* line 241, entered again after line 519 (or an early return)
Again ==
  /\ pc = "done"
  /\ pass = 1
  /\ pass' = 2
  /\ first' = [result |-> result, dc |-> dc, ckt |-> ckt, nets |-> nets, names |-> names]
  /\ pc' = "start"
  /\ UNCHANGED <<state, nextId, uf, comp, absent, components, nodes, connections, nets, names, ckt, dc, result>>

\* lines 414-506, 513-517 in the second call: ckt.dc() does what it did before
DcRepeats ==
  /\ pass = 2
  /\ pc = "solve"
  /\ first.dc.status # "none"
  /\ dc' = first.dc
  /\ IF first.dc.status = "ok"
       THEN /\ result' = ExtractResults(result, components, nodes, nets.nodeToNet,
                                        names.netNames, first.dc.V, first.dc.I)
            /\ pc' = "shortcheck"
       ELSE /\ result' = [result EXCEPT !.batteryIndices = GetAllBatteryIndices(components)]
            /\ pc' = "done"
  /\ UNCHANGED <<state, nextId, uf, comp, pass, first, absent, components, nodes, connections, nets, names, ckt>>

TwiceNext ==
  \/ Begin
  \/ BuildNets
  \/ Translate
  \/ FirstDcFails
  \/ FirstDcThrows
  \/ FirstDcSolves
  \/ ShortCheck
  \/ Again
  \/ DcRepeats

SpecTwice == Init /\ [][TwiceNext]_vars

(***************************************************************************)
(* Vocabulary of the properties.                                           *)
(***************************************************************************)
BatteryPositions == { i \in 1..Len(components) : IsBattery(components[i]) }
BulbPositions == { i \in 1..Len(components) : IsBulb(components[i]) }
NumBatteries == Cardinality(BatteryPositions)
BulbIds == { components[i].id : i \in BulbPositions }

\* components[k] is battery number Rank(k), counted from 1
Rank(k) == Cardinality({ j \in BatteryPositions : j <= k })

OneToN(seq, n) == Len(seq) = n /\ \A i \in 1..n : seq[i] = i

\* simulateCircuit has returned a result
Returned == pc = "done"

\* the netlist has been built
Translated ==
  \/ pc \in {"solve", "shortcheck"}
  \/ pc = "done" /\ dc.status # "none"

\* net naming has run
Named == pc \in {"translate", "threw"} \/ Translated \/ (pc = "done" /\ Len(names.roots) > 0)

\* the solver answered and its answer has been read into the result
Interpreted == pc \in {"shortcheck", "done"} /\ dc.status = "ok"

GroundRoots == { r \in DOMAIN names.netNames : names.netNames[r] = "gnd" }

MinusNodes == { i \in 1..Len(nodes) : nodes[i].role = "battery_minus" }

FirstMinus == CHOOSE i \in MinusNodes : \A j \in MinusNodes : i <= j

\* the nets (roots) on which component id has a terminal of the given role
NetsOf(id, role) ==
  { nets.nodeToNet[nodes[i].id] :
      i \in { j \in 1..Len(nodes) : nodes[j].componentId = id /\ nodes[j].role = role } }

\* the battery with this id has both terminals on one net
SelfShorted(id) == NetsOf(id, "battery_plus") \cap NetsOf(id, "battery_minus") # {}

\* the battery with this id has both terminals, on different nets
Healthy(id) ==
  /\ NetsOf(id, "battery_plus") # {}
  /\ NetsOf(id, "battery_minus") # {}
  /\ NetsOf(id, "battery_plus") \cap NetsOf(id, "battery_minus") = {}

DevicesNamed(nm) == { i \in 1..Len(ckt.devices) : ckt.devices[i].name = nm }

TwoNodes(id) == Cardinality({ i \in 1..Len(nodes) : nodes[i].componentId = id }) = 2

(***************************************************************************)
(* Properties of the disjoint-set structure (SpecUF).                      *)
(***************************************************************************)

\* C1: after any sequence of union calls, connected(a, b) returns true exactly
\* when a and b are in the same connected component of the graph whose
\* edges are the pairs passed to union.
ConnectedIffSameComponent ==
  \A a, b \in Ids : Connected(uf, a, b).ret = (comp[a] = comp[b])

\* a component of three ids next to an id outside it, all registered
ConnectedWitness ==
  \E a, b, c, d \in DOMAIN uf.parent :
    /\ Cardinality({a, b, c, d}) = 4
    /\ comp[a] = comp[b] /\ comp[b] = comp[c] /\ comp[d] # comp[a]
    /\ Connected(uf, a, c).ret
    /\ ~Connected(uf, a, d).ret

\* C2: find is idempotent: what find(x) returns is a root, and find of it
\* returns it again.
FindIdempotent ==
  \A x \in Ids :
    LET f == Find(uf, x)
        g == Find(f.uf, f.root)
    IN  /\ g.root = f.root
        /\ f.uf.parent[f.root] = f.root

\* an id two links away from its root: find has to follow a chain
FindChainWitness ==
  \E x \in DOMAIN uf.parent :
    /\ uf.parent[x] # x
    /\ uf.parent[uf.parent[x]] # uf.parent[x]
    /\ Find(uf, x).root = uf.parent[uf.parent[x]]

(***************************************************************************)
(* Properties of simulateCircuit (Spec).                                   *)
(***************************************************************************)

\* C3 as claimed: in any circuit with at least one battery, after net naming
\* exactly one net is named "gnd", the net of the first battery_minus node.
GroundUniqueWithBattery ==
  (Named /\ NumBatteries >= 1) =>
    /\ Cardinality(GroundRoots) = 1
    /\ MinusNodes # {}
    /\ GroundRoots = {nets.nodeToNet[nodes[FirstMinus].id]}

\* C3 amended: in any circuit with at least one node of role battery_minus,
\* after net naming exactly one root is named "gnd": the root of the net
\* holding the first battery_minus node; no other root is named "gnd".
GroundUniqueWithMinusNode ==
  (Named /\ MinusNodes # {}) =>
    /\ Cardinality(GroundRoots) = 1
    /\ GroundRoots = {nets.nodeToNet[nodes[FirstMinus].id]}
    /\ names.groundNet \in GroundRoots

\* the reference node is wired to a node that became the root of its net
GroundWitness ==
  /\ Named
  /\ MinusNodes # {}
  /\ nets.nodeToNet[nodes[FirstMinus].id] # nodes[FirstMinus].id
  /\ Len(names.roots) >= 2
  /\ Cardinality(GroundRoots) = 1

\* C4 as claimed: with nodes and components but no battery the result has
\* hasClosedLoop false, zero counts, empty batteryIndices and empty
\* bulbStates and nodeVoltages, and the solver is never invoked.
NoBatteryEmptyResult ==
  (NumBatteries = 0 /\ Len(nodes) > 0 /\ Len(components) > 0) =>
    /\ dc.status = "none"
    /\ Returned => result = MinimalResult

\* C4 amended: with nodes and components but no battery the solver is never
\* invoked and the result has hasClosedLoop false, bulbsOnCount 0,
\* totalCurrent 0, empty batteryIndices, empty nodeVoltages, and bulbStates
\* holding the off state (isOn false, current, voltage, power 0) for every
\* bulb component.
NoBatteryIncompleteResult ==
  (NumBatteries = 0 /\ Len(nodes) > 0 /\ Len(components) > 0) =>
    /\ dc.status = "none"
    /\ pc \in {"start", "nets", "done"}
    /\ Returned =>
         /\ result.hasClosedLoop = FALSE
         /\ result.bulbsOnCount = 0
         /\ result.totalCurrent = 0
         /\ result.batteryIndices = <<>>
         /\ DOMAIN result.nodeVoltages = {}
         /\ DOMAIN result.bulbStates = BulbIds
         /\ \A b \in DOMAIN result.bulbStates :
              result.bulbStates[b] =
                [isOn |-> FALSE, current |-> 0, voltage |-> 0, power |-> 0]

\* a wired bulb without any battery, after the return
NoBatteryWitness ==
  /\ Returned
  /\ NumBatteries = 0
  /\ BulbIds # {}
  /\ Len(connections) >= 1
  /\ Len(names.roots) >= 1

\* the batteries (positions in components) whose branch current is defined
DefinedCurrents == { k \in BatteryPositions : Str(components[k].id) \in DOMAIN dc.I }

CurrentOf(k) == Abs(dc.I[Str(components[k].id)])

IsFailureResult(res) ==
  /\ OneToN(res.batteryIndices, NumBatteries)
  /\ res.hasClosedLoop = FALSE
  /\ res.bulbsOnCount = 0
  /\ res.totalCurrent = 0
  /\ DOMAIN res.nodeVoltages = {}
  /\ \A b \in DOMAIN res.bulbStates :
       /\ res.bulbStates[b].isOn = FALSE
       /\ res.bulbStates[b].current = 0
       /\ res.bulbStates[b].voltage = 0
       /\ res.bulbStates[b].power = 0

\* C6: no exception leaves simulateCircuit: one raised while the netlist is
\* built or while solving is caught and gives the result of a solver failure.
NoExceptionEscapes ==
  /\ pc # "threw"
  /\ (Returned /\ dc.status = "threw") => IsFailureResult(result)

\* C7: when dc() returns undefined, batteryIndices is [1..n] for the n
\* batteries and every other field keeps its zeroed default.
SolverFailureFlagsAll ==
  (Returned /\ dc.status = "undefined") =>
    /\ Len(result.batteryIndices) = NumBatteries
    /\ \A i \in 1..NumBatteries : result.batteryIndices[i] = i
    /\ result.hasClosedLoop = FALSE
    /\ result.bulbsOnCount = 0
    /\ result.totalCurrent = 0
    /\ DOMAIN result.nodeVoltages = {}
    /\ DOMAIN result.bulbStates = BulbIds
    /\ \A b \in DOMAIN result.bulbStates :
         result.bulbStates[b] =
           [isOn |-> FALSE, current |-> 0, voltage |-> 0, power |-> 0]

\* a failed solve of a circuit with two batteries
SolverFailureWitness ==
  /\ Returned
  /\ dc.status = "undefined"
  /\ NumBatteries = 2
  /\ result.batteryIndices = <<1, 2>>

\* C8: a battery whose plus and minus terminals are on the same net adds no
\* voltage source, no internal resistor and no internal node to the netlist,
\* and its 1-based position is in batteryIndices from translation to the
\* return; every other battery with both terminals still gets its source and
\* resistor, every bulb and potentiometer with two nodes its resistor.
SelfShortExcluded ==
  Translated =>
    \A k \in BatteryPositions :
      SelfShorted(components[k].id) =>
        /\ DevicesNamed(Str(components[k].id)) = {}
        /\ DevicesNamed(Str(components[k].id) \o "_Rint") = {}
        /\ ~InSeq(ckt.nodeNames, InternalNodeName(components[k].id))
        /\ InSeq(result.batteryIndices, Rank(k))
        /\ \A j \in 1..Len(components) :
             IF IsBattery(components[j])
               THEN Healthy(components[j].id) =>
                      /\ Cardinality(DevicesNamed(Str(components[j].id))) = 1
                      /\ Cardinality(DevicesNamed(Str(components[j].id) \o "_Rint")) = 1
               ELSE TwoNodes(components[j].id) =>
                      Cardinality(DevicesNamed(Str(components[j].id))) = 1

\* a self-shorted battery next to a working one, solved and returned
SelfShortWitness ==
  /\ Returned
  /\ dc.status = "ok"
  /\ NumBatteries = 2
  /\ \E i, j \in BatteryPositions :
       SelfShorted(components[i].id) /\ Healthy(components[j].id)
  /\ Len(ckt.devices) = 2
  /\ Len(result.batteryIndices) = 1

\* C9: for every bulb with two terminals on a successful solve, isBurnedOut
\* holds iff its current exceeds 50 mA, isOn holds iff it is not burned out
\* and its current exceeds 1 mA; isOn and isBurnedOut are never both true.
BulbOnAndBurnout ==
  Interpreted =>
    \A b \in BulbIds :
      TwoNodes(b) =>
        LET st == result.bulbStates[b] IN
          /\ st.isBurnedOut <=> (st.current > 50000)
          /\ st.isOn <=> (~st.isBurnedOut /\ st.current > 1000)
          /\ ~(st.isOn /\ st.isBurnedOut)
          /\ st.current = 2 * st.voltage

\* a bulb carrying more than 50 mA: burned out and not on
BurnoutWitness ==
  /\ Interpreted
  /\ \E b \in BulbIds :
       /\ TwoNodes(b)
       /\ result.bulbStates[b].current > 50000
       /\ result.bulbStates[b].isBurnedOut
       /\ ~result.bulbStates[b].isOn

\* C10: the no-load check overwrites batteryIndices with [1..n] when
\* totalCurrent exceeds 100 mA, no bulb is on and there is a battery;
\* otherwise it leaves batteryIndices as it was.
NoLoadShortOverwrites ==
  [][pc = "shortcheck" =>
       IF result.totalCurrent > 100000 /\ result.bulbsOnCount = 0 /\ NumBatteries > 0
         THEN /\ Len(result'.batteryIndices) = NumBatteries
              /\ \A i \in 1..NumBatteries : result'.batteryIndices[i] = i
         ELSE result'.batteryIndices = result.batteryIndices]_vars

\* the list of one self-shorted battery replaced by all battery positions
NoLoadShortWitness ==
  /\ Returned
  /\ dc.status = "ok"
  /\ result.totalCurrent > 100000
  /\ result.bulbsOnCount = 0
  /\ \E i \in BatteryPositions : SelfShorted(components[i].id)
  /\ \E i \in BatteryPositions : ~SelfShorted(components[i].id)
  /\ result.batteryIndices = <<1, 2>>

\* C11: after a successful solve hasClosedLoop is true iff a bulb is on or
\* totalCurrent exceeds 1 mA; in particular it is true when totalCurrent
\* exceeds 1 mA and no bulb is on.
ClosedLoopIffOnOrCurrent ==
  Interpreted =>
    /\ result.hasClosedLoop <=> (result.bulbsOnCount > 0 \/ result.totalCurrent > 1000)
    /\ (result.totalCurrent > 1000 /\ result.bulbsOnCount = 0) => result.hasClosedLoop

\* current above 1 mA with a bulb present and no bulb on
ClosedLoopWitness ==
  /\ Interpreted
  /\ Returned
  /\ BulbIds # {}
  /\ result.bulbsOnCount = 0
  /\ result.totalCurrent > 1000
  /\ result.hasClosedLoop

\* the bulbs the result reports as on
BulbsOn == { b \in DOMAIN result.bulbStates : result.bulbStates[b].isOn }

BrightnessClamped ==
  Interpreted =>
    \A b \in BulbIds :
      TwoNodes(b) =>
        LET st == result.bulbStates[b]
            raw == st.current - 1000
        IN  /\ ~st.isOn => st.brightness = 0
            /\ st.isOn =>
                  st.brightness = (IF raw < 0 THEN 0
                                   ELSE IF raw > 2 * 17000 THEN 2 * 17000 ELSE raw)
            /\ st.brightness >= 0
            /\ st.brightness <= 2 * 17000
            /\ st.isOn => st.brightness > 0

\* an on bulb at its normal current: brightness 1, below the ceiling
BrightnessWitness ==
  /\ Interpreted
  /\ Returned
  /\ \E b \in BulbIds :
       /\ TwoNodes(b)
       /\ result.bulbStates[b].isOn
       /\ result.bulbStates[b].current = 18000
       /\ result.bulbStates[b].brightness = 17000

\* C14: when nodes or components is missing or empty, simulateCircuit
\* returns the minimal result at once: no nets are built, no names assigned,
\* no netlist built and the solver is not invoked.
EmptyInputMinimalResult ==
  ("nodes" \in absent \/ Len(nodes) = 0 \/ "components" \in absent \/ Len(components) = 0) =>
    /\ pc \in {"start", "done"}
    /\ nets = NoNets
    /\ names = NoNames
    /\ ckt = NoCircuit
    /\ dc.status = "none"
    /\ Returned =>
         /\ result.hasClosedLoop = FALSE
         /\ result.bulbsOnCount = 0
         /\ DOMAIN result.bulbStates = {}
         /\ DOMAIN result.nodeVoltages = {}
         /\ result.totalCurrent = 0
         /\ result.batteryIndices = <<>>

\* returned with a battery's nodes, wired together, and no components
EmptyInputWitness ==
  /\ Returned
  /\ Len(components) = 0
  /\ MinusNodes # {}
  /\ Len(connections) = 1
  /\ result = MinimalResult

\* component k is malformed: a battery without a battery_plus or without a
\* battery_minus node, or a bulb or potentiometer whose node count is not two
Malformed(k) ==
  IF IsBattery(components[k])
    THEN \/ NetsOf(components[k].id, "battery_plus") = {}
         \/ NetsOf(components[k].id, "battery_minus") = {}
    ELSE ~TwoNodes(components[k].id)

\* C15: a malformed component adds no element and no internal node to the
\* netlist, and translation records no fault for it: when the netlist is
\* complete its position is not in batteryIndices.  Translation itself does
\* not fail on it: every bulb in the result keeps a state.
MalformedSkipped ==
  Translated =>
    \A k \in 1..Len(components) :
      Malformed(k) =>
        /\ DevicesNamed(Str(components[k].id)) = {}
        /\ DevicesNamed(Str(components[k].id) \o "_Rint") = {}
        /\ ~InSeq(ckt.nodeNames, InternalNodeName(components[k].id))
        /\ (pc = "solve" /\ IsBattery(components[k])) =>
             ~InSeq(result.batteryIndices, Rank(k))
        /\ (Interpreted /\ IsBulb(components[k])) =>
             result.bulbStates[components[k].id] = DefaultBulbState

\* a solved circuit holding a bulb with three nodes
MalformedWitness ==
  /\ Interpreted
  /\ Returned
  /\ \E k \in BulbPositions :
       Cardinality({ i \in 1..Len(nodes) : nodes[i].componentId = components[k].id }) = 3
  /\ Len(ckt.devices) = 2
  /\ result.batteryIndices = <<>>

\* C16: within one pass net naming is a bijection from roots to names: the
\* ground root is named "gnd", the m other roots get net1..netm in
\* getRoots() order, no two roots share a name and every node resolves to
\* exactly one of these names.
NetNamesBijective ==
  Named =>
    LET roots == GetRoots(nets.uf).ret
        others == SelectSeq(roots, LAMBDA r : r # names.groundNet)
        named == DOMAIN names.netNames
    IN  /\ named = { roots[i] : i \in 1..Len(roots) }
        /\ Cardinality(named) = Len(roots)
        /\ \A r \in named : (names.netNames[r] = "gnd") <=> (r = names.groundNet)
        /\ \A k \in 1..Len(others) : names.netNames[others[k]] = "net" \o ToString(k)
        /\ \A r, q \in named : names.netNames[r] = names.netNames[q] => r = q
        /\ \A i \in 1..Len(nodes) :
             /\ nets.nodeToNet[nodes[i].id] \in named
             /\ GetNetName(nodes[i].id, nets.nodeToNet, names.netNames) =
                  names.netNames[nets.nodeToNet[nodes[i].id]]

\* the ground root between two other roots: the counter skips it
NetNamesWitness ==
  /\ Named
  /\ \E i, j, k \in 1..Len(names.roots) :
       /\ i < j /\ j < k
       /\ names.roots[j] = names.groundNet
       /\ names.netNames[names.roots[i]] = "net" \o ToString(i)
       /\ names.netNames[names.roots[j]] = "gnd"
       /\ names.netNames[names.roots[k]] = "net" \o ToString(k - 1)

(***************************************************************************)
(* Further properties of the disjoint-set structure (SpecUF).              *)
(***************************************************************************)
SeqSet(q) == { q[i] : i \in 1..Len(q) }

\* C17: in every reachable state every registered id belongs to exactly one
\* group: getGroups() is keyed by exactly the ids getRoots() returns, its
\* lists are pairwise disjoint and list no id twice, together they hold
\* exactly the registered ids, and each id is listed under find(id).
GroupsPartitionIds ==
  LET g == GetGroups(uf).groups
      r == GetRoots(uf).ret
  IN  /\ DOMAIN g = SeqSet(r)
      /\ \A k, l \in DOMAIN g : k # l => SeqSet(g[k]) \cap SeqSet(g[l]) = {}
      /\ \A k \in DOMAIN g : Cardinality(SeqSet(g[k])) = Len(g[k])
      /\ UNION { SeqSet(g[k]) : k \in DOMAIN g } = DOMAIN uf.parent
      /\ \A x \in DOMAIN uf.parent :
           /\ Find(uf, x).root \in DOMAIN g
           /\ x \in SeqSet(g[Find(uf, x).root])

\* one group of four ids, one of them two links away from the root
GroupsWitness ==
  /\ \E x \in DOMAIN uf.parent :
       /\ uf.parent[x] # x
       /\ uf.parent[uf.parent[x]] # uf.parent[x]
       /\ Len(GetGroups(uf).groups[Find(uf, x).root]) = 4
  /\ Len(GetRoots(uf).ret) = 1

\* rank and parent of x in table u, an id not yet registered counting as
\* what its registration makes of it: a root of rank 0
RankIn(u, x) == IF x \in DOMAIN u.rank THEN u.rank[x] ELSE 0
ParentIn(u, x) == IF x \in DOMAIN u.parent THEN u.parent[x] ELSE x

\* the root of x in table u: the end of the parent chain that starts at x
RECURSIVE RootIn(_, _)
RootIn(u, x) == IF ParentIn(u, x) = x THEN x ELSE RootIn(u, ParentIn(u, x))

\* root and rank of every id in table u
SetsOf(u) == [z \in Ids |-> <<RootIn(u, z), RankIn(u, z)>>]

\* the tables u and v give every id the same root and the same rank
SameSets(u, v) == SetsOf(u) = SetsOf(v)

\* C18: union(a, b) on two ids of one set changes neither the partition, nor
\* the root of any id, nor any rank.  After union(a, b) the ids a and b are
\* in one set, and the table it leaves is again a reachable one: so a wire
\* applied again, in either direction, is such a union and leaves the nets
\* as they were after its first application.
UnionSameSetNoOp ==
  LET s0 == SetsOf(uf) IN
    \A a, b \in Ids :
      LET u1 == Union(uf, a, b) IN
        /\ RootIn(u1, a) = RootIn(u1, b)
        /\ s0[a][1] = s0[b][1] =>
             /\ Connected(uf, a, b).ret
             /\ SetsOf(u1) = s0
             /\ DOMAIN u1.parent = DOMAIN uf.parent \cup {a}

\* a union inside one set that compresses a path: the parent table changes,
\* the sets do not
UnionSameSetWitness ==
  \E a, b \in DOMAIN uf.parent :
    /\ a # b
    /\ Connected(uf, a, b).ret
    /\ uf.rank[Find(uf, a).root] = 2
    /\ Union(uf, a, b) # uf
    /\ SameSets(Union(uf, a, b), uf)

\* C19: across makeSet, find, union, connected, getRoots and getGroups calls
\* no rank ever decreases, in particular not the rank of a root; a rank
\* changes only by +1, on the root that survives a union of two roots of
\* equal rank.
RankNeverDecreases ==
  [][\A x \in Ids :
       /\ x \in DOMAIN uf.parent => x \in DOMAIN uf'.parent
       /\ RankIn(uf', x) >= RankIn(uf, x)
       /\ RankIn(uf', x) # RankIn(uf, x) =>
            /\ RankIn(uf', x) = RankIn(uf, x) + 1
            /\ ParentIn(uf, x) = x
            /\ ParentIn(uf', x) = x
            /\ \E y \in Ids \ {x} :
                 /\ ParentIn(uf, y) = y
                 /\ RankIn(uf, y) = RankIn(uf, x)
                 /\ ParentIn(uf', y) = x]_vars

\* a root of rank 2 above a former root of rank 1: two tie unions happened
RankWitness ==
  \E x, y \in DOMAIN uf.parent :
    /\ uf.parent[x] = x
    /\ uf.rank[x] = 2
    /\ uf.parent[y] = x
    /\ uf.rank[y] = 1

\* C20: makeSet(id) on an unseen id registers it as its own parent with
\* rank 0 and touches no other entry; on a registered id, root or not and of
\* any rank, it changes neither table; so a second makeSet(id) changes nothing.
MakeSetIdempotent ==
  \A x \in Ids :
    LET m == MakeSet(uf, x) IN
      /\ MakeSet(m, x) = m
      /\ x \in DOMAIN uf.parent => m = uf
      /\ x \notin DOMAIN uf.parent =>
           /\ DOMAIN m.parent = DOMAIN uf.parent \cup {x}
           /\ DOMAIN m.rank = DOMAIN uf.rank \cup {x}
           /\ m.parent[x] = x
           /\ m.rank[x] = 0
           /\ \A k \in DOMAIN uf.parent :
                m.parent[k] = uf.parent[k] /\ m.rank[k] = uf.rank[k]
           /\ m.keys = Append(uf.keys, x)

\* a registered id that is not a root and has rank 1, left alone by makeSet
MakeSetWitness ==
  \E x \in DOMAIN uf.parent :
    /\ uf.parent[x] # x
    /\ uf.rank[x] = 1
    /\ MakeSet(uf, x) = uf

(***************************************************************************)
(* Properties of a repeated call (SpecTwice).                              *)
(***************************************************************************)

RanksOf(u) == [z \in Ids |-> RankIn(u, z)]

\* C22: union(a, b) on two different sets: the root of lower rank is attached
\* under the root of higher rank and no rank changes; on a tie the root of b
\* is attached under the root of a, whose rank grows by exactly one, and no
\* other rank changes.  The surviving root stays a root.
UnionByRank ==
  LET r0 == RanksOf(uf) IN
    \A a, b \in Ids :
      LET ra == RootIn(uf, a)
          rb == RootIn(uf, b)
          u1 == Union(uf, a, b)
      IN  ra # rb =>
            IF r0[ra] < r0[rb]
              THEN /\ u1.parent[ra] = rb
                   /\ u1.parent[rb] = rb
                   /\ RanksOf(u1) = r0
            ELSE IF r0[ra] > r0[rb]
              THEN /\ u1.parent[rb] = ra
                   /\ u1.parent[ra] = ra
                   /\ RanksOf(u1) = r0
            ELSE /\ u1.parent[rb] = ra
                 /\ u1.parent[ra] = ra
                 /\ RanksOf(u1) = [r0 EXCEPT ![ra] = r0[ra] + 1]

\* two roots of different rank, either of which can be the first argument
UnionByRankWitness ==
  \E x, y \in DOMAIN uf.parent :
    /\ uf.parent[x] = x
    /\ uf.parent[y] = y
    /\ uf.rank[x] < uf.rank[y]
    /\ Union(uf, x, y).parent[x] = y
    /\ Union(uf, y, x).parent[x] = y
    /\ Union(uf, x, y).rank = uf.rank

\* the ids on the parent chain from x up to and including its root
RECURSIVE ChainIn(_, _)
ChainIn(u, x) ==
  IF ParentIn(u, x) = x THEN {x} ELSE {x} \cup ChainIn(u, ParentIn(u, x))

\* C23: find(x) returns the root r of x and compresses the path: afterwards x
\* and every id on the parent chain from x to r has r as its direct parent,
\* the parent of every other id and every rank are as before, and every id
\* still has the root it had.
FindCompressesPath ==
  \A x \in Ids :
    LET f  == Find(uf, x)
        r  == RootIn(uf, x)
        ch == ChainIn(uf, x)
    IN  /\ f.root = r
        /\ \A z \in ch : f.uf.parent[z] = r
        /\ \A z \in Ids \ ch :
             /\ z \in DOMAIN f.uf.parent <=> z \in DOMAIN uf.parent
             /\ ParentIn(f.uf, z) = ParentIn(uf, z)
        /\ x \in DOMAIN uf.parent => f.uf.rank = uf.rank
        /\ RanksOf(f.uf) = RanksOf(uf)
        /\ \A y \in Ids : RootIn(f.uf, y) = RootIn(uf, y)

\* an id two links below its root, beside an id off its chain that is not a
\* root: find rewrites the parent of the first and leaves the second
FindCompressesWitness ==
  \E x, z \in DOMAIN uf.parent :
    LET f == Find(uf, x) IN
      /\ uf.parent[x] # x
      /\ uf.parent[uf.parent[x]] # uf.parent[x]
      /\ f.uf.parent[x] = f.root
      /\ f.uf.parent[x] # uf.parent[x]
      /\ z \notin ChainIn(uf, x)
      /\ uf.parent[z] # z
      /\ f.uf.parent[z] = uf.parent[z]

\* the id reached from x after k parent links
RECURSIVE Climb(_, _, _)
Climb(u, x, k) == IF k = 0 THEN x ELSE Climb(u, u.parent[x], k - 1)

\* C30: the parent and rank tables have the same keys, every parent is a
\* registered id, and every id that is not a root has a rank strictly below
\* its parent's; so no parent chain has a cycle: from any id, fewer links
\* than there are ids lead to a root, and find terminates.
TablesWellFormed ==
  LET reg == DOMAIN uf.parent IN
    /\ DOMAIN uf.rank = reg
    /\ SeqSet(uf.keys) = reg
    /\ \A x \in reg :
         /\ uf.parent[x] \in reg
         /\ uf.parent[x] # x => uf.rank[x] < uf.rank[uf.parent[x]]
         /\ LET top == Climb(uf, x, Cardinality(reg) - 1)
            IN  uf.parent[top] = top

\* a chain of two links whose ranks are 0, 1 and 2
TablesWitness ==
  /\ Len(uf.keys) = Cardinality(DOMAIN uf.rank)
  /\ \E x \in DOMAIN uf.parent :
       LET p == uf.parent[x] IN
         /\ p # x
         /\ uf.parent[p] # p
         /\ uf.rank[x] = 0
         /\ uf.rank[p] = 1
         /\ uf.rank[uf.parent[p]] = 2

(***************************************************************************)
(* simulateCircuit up to the netlist handed to the solver (lines 241-403). *)
(***************************************************************************)
NetlistNext ==
  \/ Begin
  \/ BuildNets
  \/ Translate
  \/ TranslateThrows

SpecNetlist == Init /\ [][NetlistNext]_vars

(***************************************************************************)
(* Properties of the netlist (SpecNetlist).                                *)
(***************************************************************************)

\* the name of the solver node with this index
NameAt(idx) == IF idx = GND_INDEX THEN "gnd" ELSE ckt.nodeNames[idx + 1]

\* the names of the nets made by wires and terminals
WireNetNameSet == { names.netNames[r] : r \in DOMAIN names.netNames }

\* the name of the net on which component id has its k-th node
NetNameOfNode(id, k) ==
  names.netNames[nets.nodeToNet[NodesOf(nodes, id)[k].id]]

\* the name of the net on which battery id has its terminal of this role
NetNameOfRole(id, role) ==
  names.netNames[CHOOSE r \in NetsOf(id, role) : TRUE]

HealthyBatteries == { k \in BatteryPositions : Healthy(components[k].id) }

\* C24: every battery that is not self-shorted and has both terminals gives
\* exactly two netlist elements: a 9 V source from its own internal net to
\* its minus net and a 0.1 ohm resistor from its plus net to that internal
\* net; the internal net is new, differs from every wire net and from every
\* other battery's, and only these two elements touch it; the netlist has
\* as many voltage sources as there are such batteries.
BatteryElements ==
  Translated =>
    /\ \A k \in HealthyBatteries :
         LET id  == components[k].id
             vs  == DevicesNamed(Str(id))
             rs  == DevicesNamed(Str(id) \o "_Rint")
             int == { i \in 1..Len(ckt.nodeNames) :
                        ckt.nodeNames[i] = InternalNodeName(id) }
         IN  /\ Cardinality(vs) = 1
             /\ Cardinality(rs) = 1
             /\ Cardinality(int) = 1
             /\ InternalNodeName(id) \notin WireNetNameSet
             /\ \A j \in HealthyBatteries :
                  j # k => InternalNodeName(components[j].id) # InternalNodeName(id)
             /\ LET v == ckt.devices[CHOOSE i \in vs : TRUE]
                    r == ckt.devices[CHOOSE i \in rs : TRUE]
                    internalIdx == (CHOOSE i \in int : TRUE) - 1
                IN  /\ v.kind = "v"
                    /\ v.value = "9"
                    /\ v.n1 = internalIdx
                    /\ NameAt(v.n2) = NetNameOfRole(id, "battery_minus")
                    /\ r.kind = "r"
                    /\ r.value = "0.1"
                    /\ NameAt(r.n1) = NetNameOfRole(id, "battery_plus")
                    /\ r.n2 = internalIdx
                    /\ { i \in 1..Len(ckt.devices) :
                           internalIdx \in {ckt.devices[i].n1, ckt.devices[i].n2} }
                         = vs \cup rs
    /\ Cardinality({ i \in 1..Len(ckt.devices) : ckt.devices[i].kind = "v" })
         = Cardinality(HealthyBatteries)

\* two batteries in series: four elements on two internal nets, the second
\* battery's minus net being a wire net other than ground
BatteryElementsWitness ==
  /\ Translated
  /\ Cardinality(HealthyBatteries) = 2
  /\ Len(ckt.devices) = 4
  /\ Len(connections) = 1
  /\ \E i \in 1..Len(ckt.devices) :
       /\ ckt.devices[i].kind = "v"
       /\ ckt.devices[i].n2 # GND_INDEX
       /\ \E j \in 1..Len(ckt.devices) :
            /\ ckt.devices[j].kind = "r"
            /\ ckt.devices[j].n1 = ckt.devices[i].n2

\* C25: every bulb with exactly two terminals gives exactly one resistor of
\* 500 ohm between the nets of its two terminals; every potentiometer with
\* exactly two terminals gives exactly one resistor between its two nets
\* whose value is its resistance, or 500 ohm when that is unset.
ResistorElements ==
  Translated =>
    \A k \in 1..Len(components) :
      (~IsBattery(components[k]) /\ TwoNodes(components[k].id)) =>
        LET id == components[k].id
            ds == DevicesNamed(Str(id))
        IN  /\ Cardinality(ds) = 1
            /\ LET r == ckt.devices[CHOOSE i \in ds : TRUE] IN
                 /\ r.kind = "r"
                 /\ NameAt(r.n1) = NetNameOfNode(id, 1)
                 /\ NameAt(r.n2) = NetNameOfNode(id, 2)
                 /\ IsBulb(components[k]) => r.value = "500"
                 /\ IsPot(components[k]) =>
                      r.value = (IF components[k].resistance = 0 THEN "500"
                                 ELSE ToString(components[k].resistance))

\* a battery wired to a potentiometer whose resistance is unset: one
\* resistor of 500 ohm between two different nets, one of them ground
ResistorElementsWitness ==
  /\ Translated
  /\ Len(connections) = 1
  /\ \E k \in 1..Len(components) :
       /\ IsPot(components[k])
       /\ components[k].resistance = 0
       /\ TwoNodes(components[k].id)
       /\ \E i \in DevicesNamed(Str(components[k].id)) :
            /\ ckt.devices[i].value = "500"
            /\ ckt.devices[i].n1 # ckt.devices[i].n2
            /\ GND_INDEX \in {ckt.devices[i].n1, ckt.devices[i].n2}

\* the node ids joined to those of S by at most k wires in a row
RECURSIVE WiredTo(_, _)
WiredTo(S, k) ==
  IF k = 0 THEN S
  ELSE WiredTo(S \cup { connections[i].toNodeId :
                           i \in { j \in 1..Len(connections) :
                                     connections[j].fromNodeId \in S } }
                 \cup { connections[i].fromNodeId :
                           i \in { j \in 1..Len(connections) :
                                     connections[j].toNodeId \in S } },
               k - 1)

\* the ids of component id's nodes of this role
NodeIdsOf(id, role) ==
  { nodes[i].id :
      i \in { j \in 1..Len(nodes) : nodes[j].componentId = id /\ nodes[j].role = role } }

\* the 1-based battery numbers of the batteries whose plus terminal is
\* joined to their minus terminal by wires
ShortedByWires ==
  { Rank(k) : k \in { j \in BatteryPositions :
      WiredTo(NodeIdsOf(components[j].id, "battery_plus"), Len(connections))
        \cap NodeIdsOf(components[j].id, "battery_minus") # {} } }

circuitVars ==
  <<uf, comp, pass, first, absent, components, nodes, connections, pc, nets, names,
    ckt, dc, result>>

EditorInit ==
  /\ uf = EmptyUF
  /\ comp = [i \in Ids |-> i]
  /\ SimIdle

ComponentIdsOf(st) == { st.components[i].id : i \in 1..Len(st.components) }
BoardNodeIds(st) == { st.nodes[i].id : i \in 1..Len(st.nodes) }
ConnectionIdsOf(st) == { st.connections[i].id : i \in 1..Len(st.connections) }

\* handlePlaceComponent: three calls of makeId(), in the order of the literal
handlePlaceComponent ==
  /\ nextId + 2 <= MaxMade
  /\ \E type \in CompTypes, cell \in Cells :
       state' = circuitReducer(state,
                  [type |-> "PLACE_COMPONENT", componentType |-> type,
                   x |-> cell.x, y |-> cell.y,
                   componentId |-> nextId, nodeAId |-> nextId + 1,
                   nodeBId |-> nextId + 2])
  /\ nextId' = nextId + 3
  /\ UNCHANGED circuitVars

handleAdjustResistance ==
  /\ \E componentId \in ComponentIdsOf(state) :
       /\ \E i \in 1..Len(state.components) :
            /\ state.components[i].id = componentId
            /\ state.components[i].type = "potentiometer"
       /\ state' = circuitReducer(state,
                     [type |-> "ADJUST_RESISTANCE", componentId |-> componentId])
  /\ UNCHANGED <<nextId, circuitVars>>

\* the component dragged may have been deleted since the drag began
handleMoveComponent ==
  /\ \E componentId \in 1..(nextId - 1), cell \in Cells :
       state' = circuitReducer(state,
                  [type |-> "MOVE_COMPONENT", componentId |-> componentId,
                   newX |-> cell.x, newY |-> cell.y])
  /\ UNCHANGED <<nextId, circuitVars>>

handleDeleteComponent ==
  /\ \E componentId \in ComponentIdsOf(state) :
       state' = circuitReducer(state,
                  [type |-> "DELETE_COMPONENT", componentId |-> componentId])
  /\ UNCHANGED <<nextId, circuitVars>>

handleDeleteWire ==
  /\ \E connectionId \in ConnectionIdsOf(state) :
       state' = circuitReducer(state,
                  [type |-> "DELETE_WIRE", connectionId |-> connectionId])
  /\ UNCHANGED <<nextId, circuitVars>>

handleNodeClickForWire ==
  /\ \E nodeId \in BoardNodeIds(state) :
       IF state.pendingWireStartNodeId = Null
         THEN /\ state' = circuitReducer(state, [type |-> "START_WIRE", nodeId |-> nodeId])
              /\ nextId' = nextId
       ELSE IF state.pendingWireStartNodeId = nodeId
         THEN /\ state' = circuitReducer(state, [type |-> "CANCEL_WIRE"])
              /\ nextId' = nextId
       ELSE /\ nextId <= MaxMade
            /\ state' = circuitReducer(state,
                          [type |-> "COMPLETE_WIRE", connectionId |-> nextId,
                           toNodeId |-> nodeId])
            /\ nextId' = nextId + 1
  /\ UNCHANGED circuitVars

handleCancelWire ==
  /\ state' = circuitReducer(state, [type |-> "CANCEL_WIRE"])
  /\ UNCHANGED <<nextId, circuitVars>>

handleCancelPlacement ==
  /\ state' = circuitReducer(state, [type |-> "CANCEL_PLACEMENT"])
  /\ UNCHANGED <<nextId, circuitVars>>

handlePaletteDragStart ==
  /\ \E toolId \in Tools \ {"select"} :
       state' = circuitReducer(state, [type |-> "START_PALETTE_DRAG", toolId |-> toolId])
  /\ UNCHANGED <<nextId, circuitVars>>

handleHoverChange ==
  /\ \E position \in HoverCells \cup {NoPosition} :
       state' = circuitReducer(state, [type |-> "SET_HOVER_POSITION", position |-> position])
  /\ UNCHANGED <<nextId, circuitVars>>

handleDragEnd ==
  /\ state' = circuitReducer(state, [type |-> "DRAG_END"])
  /\ UNCHANGED <<nextId, circuitVars>>

handleSelectTool ==
  /\ \E tool \in Tools :
       state' = circuitReducer(state, [type |-> "SET_SELECTED_TOOL", tool |-> tool])
  /\ UNCHANGED <<nextId, circuitVars>>

EditorNext ==
  \/ handlePlaceComponent
  \/ handleAdjustResistance
  \/ handleMoveComponent
  \/ handleDeleteComponent
  \/ handleDeleteWire
  \/ handleNodeClickForWire
  \/ handleCancelWire
  \/ handleCancelPlacement
  \/ handlePaletteDragStart
  \/ handleHoverChange
  \/ handleDragEnd
  \/ handleSelectTool

SpecEditor == EditorInit /\ [][EditorNext]_vars

(***************************************************************************)
(* Properties of the editor (SpecEditor).                                  *)
(***************************************************************************)
\* the positions in state.nodes of the nodes that name this component
NodesNaming(st, id) == { i \in 1..Len(st.nodes) : st.nodes[i].componentId = id }

\* C26: after any sequence of editor actions every component has exactly two
\* nodes whose componentId is its id, every node belongs to a component on
\* the board, and every battery has exactly one battery_minus and exactly
\* one battery_plus node.
TwoNodesPerComponent ==
  /\ \A i \in 1..Len(state.components) :
       LET c  == state.components[i]
           ns == NodesNaming(state, c.id)
       IN  /\ Cardinality(ns) = 2
           /\ c.type = "battery" =>
                /\ Cardinality({ k \in ns : state.nodes[k].role = "battery_minus" }) = 1
                /\ Cardinality({ k \in ns : state.nodes[k].role = "battery_plus" }) = 1
  /\ \A k \in 1..Len(state.nodes) :
       state.nodes[k].componentId \in ComponentIdsOf(state)
  /\ Len(state.nodes) = 2 * Len(state.components)

\* a battery placed after the first component was deleted, then moved: its
\* minus node is left of its plus node at the new place
TwoNodesWitness ==
  /\ Len(state.components) = 1
  /\ state.components[1].id = 4
  /\ state.components[1].type = "battery"
  /\ state.components[1].x = 5
  /\ Len(state.nodes) = 2
  /\ state.nodes[1] = [id |-> 5, componentId |-> 4, x |-> 4, y |-> 4,
                       role |-> "battery_minus"]
  /\ state.nodes[2] = [id |-> 6, componentId |-> 4, x |-> 6, y |-> 4,
                       role |-> "battery_plus"]

\* the preset after r on the ladder
NextPreset(r) ==
  CASE r = 100 -> 250
    [] r = 250 -> 500
    [] r = 500 -> 1000
    [] r = 1000 -> 2000
    [] r = 2000 -> 5000
    [] r = 5000 -> 10000
    [] r = 10000 -> 100

RECURSIVE AdjustTimes(_, _, _)
AdjustTimes(st, id, k) ==
  IF k = 0 THEN st
  ELSE AdjustTimes(ADJUST_RESISTANCE(st, [componentId |-> id]), id, k - 1)

\* C27: every potentiometer's resistance is one of 100, 250, 500, 1000, 2000,
\* 5000, 10000; a potentiometer is placed with 500; ADJUST_RESISTANCE moves it
\* to the next preset, from 10000 back to 100, so seven adjustments give the
\* value it had; and it changes no other component, no node, no connection.
PresetLadder ==
  /\ \A i \in 1..Len(state.components) :
       LET c  == state.components[i]
           s1 == ADJUST_RESISTANCE(state, [componentId |-> c.id])
       IN  IF c.type = "potentiometer"
             THEN /\ c.resistance \in {100, 250, 500, 1000, 2000, 5000, 10000}
                  /\ s1.components[i] = [c EXCEPT !.resistance = NextPreset(c.resistance)]
                  /\ \A j \in 1..Len(state.components) :
                       j # i => s1.components[j] = state.components[j]
                  /\ Len(s1.components) = Len(state.components)
                  /\ s1 = [state EXCEPT !.components = s1.components]
                  /\ AdjustTimes(state, c.id, 7) = state
                  /\ \A k \in 1..6 : AdjustTimes(state, c.id, k) # state
             ELSE s1 = state
  /\ \A cell \in Cells :
       LET s1 == PLACE_COMPONENT(state,
                   [componentType |-> "potentiometer", x |-> cell.x, y |-> cell.y,
                    componentId |-> nextId, nodeAId |-> nextId + 1,
                    nodeBId |-> nextId + 2])
       IN  s1.components[Len(s1.components)].resistance = 500

\* a potentiometer adjusted up to 10000, which the next adjustment takes to
\* 100, beside a potentiometer still at 500
PresetLadderWitness ==
  /\ Len(state.components) = 2
  /\ state.components[1].type = "potentiometer"
  /\ state.components[1].resistance = 10000
  /\ state.components[2].type = "potentiometer"
  /\ state.components[2].resistance = 500
  /\ ADJUST_RESISTANCE(state, [componentId |-> state.components[1].id]).components[1].resistance
       = 100

\* the connections of st that touch none of the node ids in S
Untouched(st, S) ==
  SelectSeq(st.connections, LAMBDA c : c.fromNodeId \notin S /\ c.toNodeId \notin S)

====
